---------------------------- MODULE Spec2Model ----------------------------
(***************************************************************************)
(* A model of the vulnerability-labelling core of the collection scripts:  *)
(*   modules/common.py   check_range_overlap, the JSON cell (de)serialisers *)
(*   modules/project.py  the diff parser and the version-control queries    *)
(*   find_affected_files.py   the affected-file table (first pass)          *)
(*   create_file_timeline.py  the checkpoint list, the main pass, the       *)
(*                            duplicate drop and the correction pass        *)
(* The version-control system is the environment: a repository is a small   *)
(* commit graph with one tree per commit, and each query is the operator    *)
(* that git computes for the command line the source passes to it.          *)
(***************************************************************************)
EXTENDS Integers, Sequences, FiniteSets, TLC

VARIABLES
    pc,                     \* position of the running script / function
    range_1, range_2,       \* check_range_overlap: the two arguments
    overlap_result,         \* check_range_overlap: the value returned
    container,              \* serialize_json_container: the argument
    default,                \* deserialize_json_container: the default argument
    container_str,          \* the serialised cell
    deserialized,           \* deserialize_json_container: the value returned
    diff_result,            \* git diff --unified=0: the lines of its output
    line_index,             \* the diff line the parser is at
    last_file_path,         \* find_changed_source_files_...: nonlocal state
    last_from_lines_list,
    last_to_lines_list,
    yielded,                \* the triples the generator has yielded so far
    error_log,              \* log.error / log.warning entries written
    repository,             \* the project's git repository (the environment)
    cves,                   \* the rows of the "cve" CSV: CVE, Git Commit Hashes
    hash_list,              \* sort_git_commit_hashes_topologically: the argument
    sorted_hash_list,       \* sort_git_commit_hashes_topologically: the value returned
    neutral_commit_list,    \* find_affected_files.py
    topological_index,      \* find_affected_files.py: the first pass's loop index
    affected_files,         \* the affected-file table
    commit_list,            \* create_file_timeline.py: the checkpoints
    index,                  \* create_file_timeline.py: the main pass's loop index
    timeline,               \* the file-timeline table
    deduplicated,           \* history: the table as the correction pass found it
    consecutive_commits,    \* the flagged rows the correction pass has yet to read
    operation,              \* the Project method called on its own
    argument,               \* its commit hash argument
    git_fails,              \* does the git command it runs raise GitCommandError?
    op_result,              \* what the method returned
    traversal,              \* which traversal checks commits out
    checkout_list,          \* the commits it checks out, a list per group
    position,               \* groups the traversal has gone through
    working_tree,           \* what the working tree holds
    source_files,           \* second pass: the content of each file of the working tree
    code_units,             \* second pass: the function and class cells of each table row
    groups_done,            \* second pass: the groups gone through
    global_config,          \* GLOBAL_CONFIG: the two options of the timeline iteration
    groups_iterated,        \* timeline iteration: the groups the loop has gone through
    checkouts,              \* timeline iteration: the checkouts made, a record per call
    changed_files           \* timeline iteration: the ChangedFiles tuples yielded

commonVars == <<range_1, range_2, overlap_result, container, default, container_str, deserialized>>
parserVars == <<diff_result, line_index, last_file_path, last_from_lines_list,
                last_to_lines_list, yielded>>
repoVars == <<repository, cves>>
topoVars == <<hash_list, sorted_hash_list>>
mapperVars == <<neutral_commit_list, topological_index, affected_files>>
timelineVars == <<commit_list, index, timeline, deduplicated, consecutive_commits>>
callVars == <<operation, argument, git_fails, op_result>>
checkoutVars == <<traversal, checkout_list, position, working_tree>>
unitVars == <<source_files, code_units, groups_done>>
iterateVars == <<global_config, groups_iterated, checkouts, changed_files>>
otherVars == <<callVars, checkoutVars, unitVars, iterateVars>>
vars == <<pc, commonVars, parserVars, error_log, repoVars, topoVars, mapperVars, timelineVars,
          otherVars>>

-----------------------------------------------------------------------------
(* Bounds of the model.                                                     *)

\* Largest line number / hunk length drawn for the small cases.
MaxLine == 2
\* Longest diff (in lines) handed to the parser.
MaxDiffLines == 3
\* Longest list / dictionary drawn for the JSON round trip.
MaxLen == 2
\* Commits of a repository: 1 (the root) .. MaxCommit, parents before children.
MaxCommit == 4
\* Most parents a commit has.
MaxParents == 2
\* Committer dates are drawn from 1..MaxDate.
MaxDate == 2
\* Longest hash list handed to the topological sort on its own.
MaxHashes == 3
\* Most fix commits the CSV lists for the first vulnerability.
MaxFixes == 2
\* Most groups a traversal that checks commits out goes through.
MaxGroups == 2

-----------------------------------------------------------------------------
(* Generic helpers.                                                         *)

Max(a, b) == IF a >= b THEN a ELSE b

Range(s) == {s[i] : i \in DOMAIN s}

SeqsUpTo(S, n) == UNION {[1..k -> S] : k \in 0..n}

\* The subsequence of s at the positions satisfying Keep, in order.
RECURSIVE SelectIdx(_, _, _)
SelectIdx(s, Keep(_), i) ==
    IF i > Len(s) THEN <<>>
    ELSE (IF Keep(i) THEN <<s[i]>> ELSE <<>>) \o SelectIdx(s, Keep, i + 1)

-----------------------------------------------------------------------------
(* Python values, as far as the JSON cells need them.                       *)

PyNone == [t |-> "none", v |-> 0]
PyInt(n) == [t |-> "int", v |-> n]
PyStr(s) == [t |-> "str", v |-> s]
PyList(s) == [t |-> "list", v |-> s]
\* A dict is its items in insertion order, each <<key, value>>, keys distinct.
PyDict(items) == [t |-> "dict", v |-> items]

\* Python truthiness of a container: `if container`.
IsTruthy(x) ==
    CASE x.t = "none" -> FALSE
      [] x.t = "int"  -> x.v # 0
      [] x.t = "str"  -> x.v # ""
      [] OTHER        -> Len(x.v) > 0

\* JSON text is a sequence of tokens.
Tok(k) == [k |-> k, s |-> "", n |-> 0]
TokNum(n) == [k |-> "num", s |-> "", n |-> n]
TokStr(s) == [k |-> "str", s |-> s, n |-> 0]

\* json.dumps
RECURSIVE json_dumps(_)
RECURSIVE DumpElems(_, _)
RECURSIVE DumpItems(_, _)
DumpElems(s, i) ==
    IF i > Len(s) THEN <<>>
    ELSE (IF i > 1 THEN <<Tok(",")>> ELSE <<>>) \o json_dumps(s[i]) \o DumpElems(s, i + 1)
DumpItems(s, i) ==
    IF i > Len(s) THEN <<>>
    ELSE (IF i > 1 THEN <<Tok(",")>> ELSE <<>>)
         \o <<TokStr(s[i][1]), Tok(":")>> \o json_dumps(s[i][2]) \o DumpItems(s, i + 1)
json_dumps(x) ==
    CASE x.t = "none" -> <<Tok("null")>>
      [] x.t = "int"  -> <<TokNum(x.v)>>
      [] x.t = "str"  -> <<TokStr(x.v)>>
      [] x.t = "list" -> <<Tok("[")>> \o DumpElems(x.v, 1) \o <<Tok("]")>>
      [] x.t = "dict" -> <<Tok("{")>> \o DumpItems(x.v, 1) \o <<Tok("}")>>

\* json.loads: a recursive-descent parse; each step returns the value read
\* and the tokens left.
RECURSIVE ParseValue(_)
RECURSIVE ParseElems(_, _)
RECURSIVE ParseItems(_, _)
ParseElems(toks, acc) ==
    IF Head(toks).k = "]" THEN [v |-> PyList(acc), rest |-> Tail(toks)]
    ELSE LET ts == IF Head(toks).k = "," THEN Tail(toks) ELSE toks
             r  == ParseValue(ts)
         IN  ParseElems(r.rest, Append(acc, r.v))
ParseItems(toks, acc) ==
    IF Head(toks).k = "}" THEN [v |-> PyDict(acc), rest |-> Tail(toks)]
    ELSE LET ts == IF Head(toks).k = "," THEN Tail(toks) ELSE toks
             key == Head(ts).s
             r  == ParseValue(Tail(Tail(ts)))
             \* a repeated key keeps its first position and takes the last value
             hit == {i \in DOMAIN acc : acc[i][1] = key}
         IN  ParseItems(r.rest,
                        IF hit = {} THEN Append(acc, <<key, r.v>>)
                        ELSE [i \in DOMAIN acc |-> IF i \in hit THEN <<key, r.v>> ELSE acc[i]])
ParseValue(toks) ==
    LET h == Head(toks) IN
    CASE h.k = "null" -> [v |-> PyNone, rest |-> Tail(toks)]
      [] h.k = "num"  -> [v |-> PyInt(h.n), rest |-> Tail(toks)]
      [] h.k = "str"  -> [v |-> PyStr(h.s), rest |-> Tail(toks)]
      [] h.k = "["    -> ParseElems(Tail(toks), <<>>)
      [] h.k = "{"    -> ParseItems(Tail(toks), <<>>)
json_loads(toks) == ParseValue(toks).v

\* A cell that holds no text (None in memory, an empty cell / NaN on disk).
NoCell == <<>>

serialize_json_container_always_dumps(c) == json_dumps(c)
\* common.py: serialize_json_container
serialize_json_container(c) == IF IsTruthy(c) THEN json_dumps(c) ELSE NoCell

\* common.py: deserialize_json_container (pd.notna(container_str) is false
\* for None and for NaN)
deserialize_json_container(cell, dflt) == IF cell # NoCell THEN json_loads(cell) ELSE dflt

lists_have_elements_in_common_whatever_the_lists(a, b) == TRUE

\* common.py: lists_have_elements_in_common
lists_have_elements_in_common(a, b) == Range(a.v) \cap Range(b.v) # {}

-----------------------------------------------------------------------------
(* The containers drawn for the round trip: what the scripts serialise are  *)
(* lists of strings (hashes, vulnerability ids), lists of [begin, end]      *)
(* pairs and lists of code-unit dictionaries with string keys.              *)

JsonAtoms == {PyInt(0), PyInt(7), PyStr("f")}
JsonKeys == {"Name", "Lines"}
JsonInner ==
    {PyList(s) : s \in SeqsUpTo(JsonAtoms, MaxLen)}
    \cup {PyDict(<<>>)}
    \cup {PyDict(<<<<k, a>>>>) : k \in JsonKeys, a \in JsonAtoms}
    \cup {PyDict(<<<<"Name", a>>, <<"Lines", PyList(<<b, b>>)>>>>) : a, b \in JsonAtoms}
JsonContainers ==
    {PyList(s) : s \in SeqsUpTo(JsonAtoms \cup JsonInner, MaxLen)}
    \cup {d \in JsonInner : d.t = "dict"}

-----------------------------------------------------------------------------
(* common.py: check_range_overlap.  A range is <<begin, end>>.              *)

check_range_overlap_strict(r1, r2) ==
    IF r1[1] > r1[2] THEN FALSE
    ELSE IF r2[1] > r2[2] THEN FALSE
    ELSE r1[1] < r2[2] /\ r2[1] < r1[2]

check_range_overlap_checking_the_first_only(r1, r2) ==
    IF r1[1] > r1[2] THEN FALSE
    ELSE r1[1] <= r2[2] /\ r2[1] <= r1[2]

\* common.py 263-271
check_range_overlap(r1, r2) ==
    IF r1[1] > r1[2] THEN FALSE
    ELSE IF r2[1] > r2[2] THEN FALSE
    ELSE r1[1] <= r2[2] /\ r2[1] <= r1[2]

\* The end points drawn: the small ones, and those of the documented example
\* (a unit at lines 10..20 against changes at 5..9, 19..21 and 20..20).
OverlapPoints == (0..MaxLine) \cup {5, 9, 10, 19, 20, 21}


-----------------------------------------------------------------------------
(* project.py: find_changed_source_files_and_lines_between_git_commits.     *)
(* A line of the diff is one of                                             *)
(*   file    "+++ <x>/<path>"  (path is what follows the first slash; for   *)
(*           "+++ /dev/null" that is "dev/null")                            *)
(*   plus3   a line that starts with "+++ " and holds no slash              *)
(*   hunk    "@@ -fb[,ft] +tb[,tt] @@ ..." matching GIT_DIFF_LINE_NUMBERS   *)
(*   badhunk a line that starts with "@@" and does not match                *)
(*   other   any other line                                                 *)

\* An optional regex group that did not take part in the match.
NoTotal == -1
\* last_file_path = None
NoPath == ""

DiffLine(kind, path, fb, ft, tb, tt) ==
    [kind |-> kind, path |-> path, from_begin |-> fb, from_total |-> ft,
     to_begin |-> tb, to_total |-> tt]
FileLine(path) == DiffLine("file", path, 0, 0, 0, 0)
HunkLine(fb, ft, tb, tt) == DiffLine("hunk", NoPath, fb, ft, tb, tt)

\* "@@ -424,20 +420,0 @@ MakeDialogText(...)", the example of scraping.py
DocHunk == HunkLine(424, 20, 420, 0)

\* One side of a hunk header: <<begin, total>>.
HunkSides == {<<0, 0>>, <<MaxLine, NoTotal>>, <<MaxLine, 0>>, <<MaxLine, MaxLine + 1>>}

DiffLines ==
    {FileLine(p) : p \in {"a.c", "b.c", "dev/null"}}
    \cup {HunkLine(f[1], f[2], t[1], t[2]) : f, t \in HunkSides}
    \cup {DocHunk}
    \cup {DiffLine(k, NoPath, 0, 0, 0, 0) : k \in {"plus3", "badhunk", "other"}}

append_line_numbers_without_max(line_list, line_begin, total_group) ==
    IF line_begin = 0 THEN line_list
    ELSE LET total_lines == IF total_group # NoTotal THEN total_group ELSE 1
             line_end == line_begin + (total_lines - 1)
         IN  Append(line_list, <<line_begin, line_end>>)

append_line_numbers_skipping_empty_sides(line_list, line_begin, total_group) ==
    IF line_begin = 0 \/ total_group = 0 THEN line_list
    ELSE LET total_lines == IF total_group # NoTotal THEN total_group ELSE 1
             line_end == line_begin + Max(total_lines - 1, 0)
         IN  Append(line_list, <<line_begin, line_end>>)

append_line_numbers_ending_past_the_hunk(line_list, line_begin, total_group) ==
    IF line_begin = 0 THEN line_list
    ELSE LET total_lines == IF total_group # NoTotal THEN total_group ELSE 1
         IN  Append(line_list, <<line_begin, line_begin + total_lines>>)

\* project.py 367-379: append_line_numbers
append_line_numbers(line_list, line_begin, total_group) ==
    IF line_begin = 0 THEN line_list
    ELSE LET total_lines == IF total_group # NoTotal THEN total_group ELSE 1
             line_end == line_begin + Max(total_lines - 1, 0)
         IN  Append(line_list, <<line_begin, line_end>>)

\* The generator's state between two lines.
ParserStart ==
    [last_file_path |-> NoPath, last_from_lines_list |-> <<>>, last_to_lines_list |-> <<>>,
     yielded |-> <<>>, errors |-> 0, raised |-> FALSE]

\* project.py 338-347: yield_last_file_if_it_exists
yield_last_file_if_it_exists(st) ==
    IF st.last_file_path # NoPath
    THEN [st EXCEPT !.yielded = Append(@, <<st.last_file_path, st.last_from_lines_list,
                                            st.last_to_lines_list>>),
                    !.last_file_path = NoPath,
                    !.last_from_lines_list = <<>>,
                    !.last_to_lines_list = <<>>]
    ELSE st

ParserStep_dropping_the_file_on_a_bad_hunk(st, line) ==
    CASE line.kind = "file" ->
            [yield_last_file_if_it_exists(st) EXCEPT
                !.last_file_path = IF line.path = "dev/null" THEN NoPath ELSE line.path]
      [] line.kind = "plus3" ->
            [yield_last_file_if_it_exists(st) EXCEPT !.raised = TRUE]
      [] line.kind = "hunk" /\ st.last_file_path # NoPath ->
            [st EXCEPT
                !.last_from_lines_list = append_line_numbers(@, line.from_begin, line.from_total),
                !.last_to_lines_list = append_line_numbers(@, line.to_begin, line.to_total)]
      [] line.kind = "badhunk" /\ st.last_file_path # NoPath ->
            [st EXCEPT !.errors = @ + 1, !.last_file_path = NoPath,
                       !.last_from_lines_list = <<>>, !.last_to_lines_list = <<>>]
      [] OTHER -> st

\* project.py 349-385: the body of the loop over diff_result.splitlines()
ParserStep(st, line) ==
    CASE line.kind = "file" ->
            [yield_last_file_if_it_exists(st) EXCEPT
                !.last_file_path = IF line.path = "dev/null" THEN NoPath ELSE line.path]
      [] line.kind = "plus3" ->
            \* `_, last_file_path = line.split('/', 1)` raises ValueError
            [yield_last_file_if_it_exists(st) EXCEPT !.raised = TRUE]
      [] line.kind = "hunk" /\ st.last_file_path # NoPath ->
            [st EXCEPT
                !.last_from_lines_list = append_line_numbers(@, line.from_begin, line.from_total),
                !.last_to_lines_list = append_line_numbers(@, line.to_begin, line.to_total)]
      [] line.kind = "badhunk" /\ st.last_file_path # NoPath ->
            [st EXCEPT !.errors = @ + 1]
      [] OTHER -> st

\* The whole generator run over the lines from position i on.
RECURSIVE ParseFrom(_, _, _)
ParseFrom(st, lines, i) ==
    IF st.raised THEN st
    ELSE IF i > Len(lines) THEN yield_last_file_if_it_exists(st)
    ELSE ParseFrom(ParserStep(st, lines[i]), lines, i + 1)

ParseDiff(lines) == ParseFrom(ParserStart, lines, 1)

ParserState ==
    [last_file_path |-> last_file_path, last_from_lines_list |-> last_from_lines_list,
     last_to_lines_list |-> last_to_lines_list, yielded |-> yielded,
     errors |-> error_log, raised |-> pc = "raised"]

SetParserState(st) ==
    /\ last_file_path' = st.last_file_path
    /\ last_from_lines_list' = st.last_from_lines_list
    /\ last_to_lines_list' = st.last_to_lines_list
    /\ yielded' = st.yielded
    /\ error_log' = st.errors

-----------------------------------------------------------------------------
(* The repository.  Commits are 1..MaxCommit, commit 1 the only root, every  *)
(* parent numbered below its child.  All files are C sources.  A tree maps   *)
(* each file to the commit that last wrote its content.                      *)

Commits == 1..MaxCommit
\* A hash no commit of the repository has.
InvalidHash == 0
\* What a tree holds for a file the commit does not have (the /dev/null side
\* of a diff).
Absent == 0
\* The source files, in the path order in which git diff lists them.
Files == <<"a.c", "b.c">>
FileSet == Range(Files)
\* What follows the first slash of an added line such as "++ n; // inc",
\* which the diff shows as "+++ n; // inc".
StrayPath == "/ inc"
CveIds == <<"CVE-1", "CVE-2">>

\* s without the later occurrences of its elements.
Dedup(s) == SelectIdx(s, LAMBDA i : \A j \in 1..(i - 1) : s[j] # s[i], 1)

\* The strictly increasing sequence of the elements of a set of integers.
RECURSIVE Ascending(_)
Ascending(S) ==
    IF S = {} THEN <<>>
    ELSE LET m == CHOOSE x \in S : \A y \in S : x <= y
         IN  <<m>> \o Ascending(S \ {m})

TreeSame(r, c, p) == r.tree[c] = r.tree[p]

\* History simplification of `git log -- .`: a commit that is TREESAME to one
\* of its parents is not shown, and the walk follows the first such parent.
RECURSIVE Simplify(_, _)
Simplify(r, c) ==
    LET same == {i \in DOMAIN r.parents[c] : TreeSame(r, c, r.parents[c][i])}
    IN  IF same = {} THEN c
        ELSE Simplify(r, r.parents[c][CHOOSE i \in same : \A j \in same : i <= j])

\* git log [HASH] --parents --max-count=1 --format="%P" -- .
\* the rewritten parents of the first commit shown.
GitLogParents(r, h) ==
    LET shown == Simplify(r, h)
    IN  Dedup([i \in DOMAIN r.parents[shown] |-> Simplify(r, r.parents[shown][i])])

\* project.py 477-495: find_last_changed_git_commit_hashes(commit_hash, '.')
find_parent_git_commit_hashes(r, h) ==
    IF ~r.loaded \/ h \notin Commits THEN <<>> ELSE GitLogParents(r, h)

\* git rev-list --topo-order --reverse --no-walk=sorted: with --no-walk the
\* commits given are sorted by committer date, newest first and equal dates in
\* the order given, and that list is reversed; a hash given twice is listed once.
GitRevListSorted(r, hl) ==
    LET d == Dedup(hl)
        Before(j, i) == \/ r.date[d[j]] < r.date[d[i]]
                        \/ r.date[d[j]] = r.date[d[i]] /\ j > i
        Rank(i) == 1 + Cardinality({j \in DOMAIN d : Before(j, i)})
    IN  [k \in DOMAIN d |-> d[CHOOSE i \in DOMAIN d : Rank(i) = k]]

\* project.py 281-300: sort_git_commit_hashes_topologically
sort_git_commit_hashes_topologically(r, hl) ==
    IF ~r.loaded THEN <<>>
    ELSE IF Len(hl) <= 1 THEN hl
    ELSE IF \E i \in DOMAIN hl : hl[i] \notin Commits THEN <<>>
    ELSE GitRevListSorted(r, hl)

\* project.py 302-317: filter_git_commit_hashes_by_source_file_extensions
\* git rev-list [HASHES] --no-walk=unsorted -- [EXTENSIONS]: the commits given,
\* in the order given and once each, that are TREESAME to none of their parents.
filter_git_commit_hashes_by_source_file_extensions(r, hl) ==
    IF ~r.loaded THEN <<>>
    ELSE IF hl = <<>> \/ \E i \in DOMAIN hl : hl[i] \notin Commits THEN <<>>
    ELSE LET d == Dedup(hl)
         IN  SelectIdx(d, LAMBDA i : \A k \in DOMAIN r.parents[d[i]] :
                                        ~TreeSame(r, d[i], r.parents[d[i]][k]), 1)

\* project.py 461-475: find_first_git_commit_hash
find_first_git_commit_hash(r) == 1

\* git diff --unified=0 [FROM] [TO] -- [EXTENSIONS]: per changed file its
\* header lines and one hunk (the line numbers stand for the two contents);
\* an added line of the stray kind follows when TO's content holds one that
\* FROM's content lacks.
RECURSIVE GitDiffFrom(_, _, _, _)
GitDiffFrom(r, a, b, i) ==
    IF i > Len(Files) THEN <<>>
    ELSE LET f == Files[i]
             va == r.tree[a][f]
             vb == r.tree[b][f]
         IN  (IF va = vb THEN <<>>
              ELSE IF vb = Absent
              \* a deleted file: "+++ /dev/null", "@@ -1,n +0,0 @@"
              THEN <<DiffLine("other", NoPath, 0, 0, 0, 0), FileLine("dev/null"),
                     HunkLine(va, NoTotal, 0, 0)>>
              ELSE IF va = Absent
              \* a new file: "+++ b/f", "@@ -0,0 +1,n @@"
              THEN <<DiffLine("other", NoPath, 0, 0, 0, 0), FileLine(f),
                     HunkLine(0, 0, vb, NoTotal)>>
              ELSE <<DiffLine("other", NoPath, 0, 0, 0, 0), FileLine(f),
                     HunkLine(va, NoTotal, vb, NoTotal)>>
                   \o (IF vb \in r.stray THEN <<FileLine(StrayPath)>> ELSE <<>>))
             \o GitDiffFrom(r, a, b, i + 1)
GitDiff(r, a, b) == GitDiffFrom(r, a, b, 1)

\* project.py 319-387, as the list of the triples it yields
find_changed_source_files_and_lines_between_git_commits(r, a, b) ==
    IF ~r.loaded THEN <<>> ELSE ParseDiff(GitDiff(r, a, b)).yielded

\* project.py 412-414: the diff against commit_hash^, the first parent;
\* git fails on the root, which has none.
find_changed_source_files_and_lines_since_parent_git_commit(r, h) ==
    IF ~r.loaded \/ h \notin Commits \/ r.parents[h] = <<>> THEN <<>>
    ELSE find_changed_source_files_and_lines_between_git_commits(r, r.parents[h][1], h)

\* Is a an ancestor of b (a # b)?
RECURSIVE IsAncestor(_, _, _)
IsAncestor(r, a, b) ==
    \E i \in DOMAIN r.parents[b] :
        r.parents[b][i] = a \/ IsAncestor(r, a, r.parents[b][i])

-----------------------------------------------------------------------------
(* The repositories drawn.                                                  *)

\* The parent lists commit c can have: distinct earlier commits.
ParentChoices(c) ==
    {s \in SeqsUpTo(1..(c - 1), MaxParents) :
        Len(s) >= 1 /\ \A i, j \in DOMAIN s : i # j => s[i] # s[j]}

\* The commit graphs on 1..n.
RECURSIVE GraphsUpTo(_)
GraphsUpTo(n) ==
    IF n = 1 THEN {<< <<>> >>}
    ELSE {Append(g, ps) : g \in GraphsUpTo(n - 1), ps \in ParentChoices(n)}

\* One branch: every commit but the last is the parent of a later one.
SingleHead(g) ==
    \A c \in 1..(MaxCommit - 1) : \E d \in (c + 1)..MaxCommit : c \in Range(g[d])

Graphs == {g \in GraphsUpTo(MaxCommit) : SingleHead(g)}

\* The tree of commit c: the root writes every file; a later commit writes the
\* files it touches and takes the others from its parents (from the parent
\* holding the newer content when they differ).
RECURSIVE TreeOf(_, _, _)
TreeOf(g, touched, c) ==
    [f \in FileSet |->
        IF c = 1 \/ f \in touched[c] THEN c
        ELSE LET vs == {TreeOf(g, touched, g[c][i])[f] : i \in DOMAIN g[c]}
             IN  CHOOSE v \in vs : \A w \in vs : w <= v]

Repository(loaded, g, touched, date, stray) ==
    [loaded |-> loaded, parents |-> g,
     tree |-> [c \in Commits |-> TreeOf(g, touched, c)],
     date |-> date, stray |-> stray]

\* The repository r with the second file existing in the commits of
\* `present` only: a file that a commit adds and another deletes.
WithSecondFileOnlyIn(r, present) ==
    [r EXCEPT !.tree = [c \in Commits |->
        [f \in FileSet |-> IF f = Files[2] /\ c \notin present THEN Absent
                           ELSE r.tree[c][f]]]]

\* self.repository is None: the repository could not be loaded.
NoRepository ==
    Repository(FALSE, [c \in Commits |-> IF c = 1 THEN <<>> ELSE <<c - 1>>],
               [c \in 2..MaxCommit |-> FileSet], [c \in Commits |-> 1], {})

-----------------------------------------------------------------------------
(* find_affected_files.py: the affected-file table.                         *)

\* [[begin, end], ...] as a Python list of lists
RangesToPy(ranges) ==
    PyList([i \in DOMAIN ranges |-> PyList(<<PyInt(ranges[i][1]), PyInt(ranges[i][2])>>)])
HashesToPy(hashes) == PyList([i \in DOMAIN hashes |-> PyInt(hashes[i])])
StringsToPy(strings) == PyList([i \in DOMAIN strings |-> PyStr(strings[i])])
PyToSeq(list) == [i \in DOMAIN list.v |-> list.v[i].v]

\* A row of the "cve" CSV.
CveRow(cve, hashes) ==
    [CVE |-> cve, Git_Commit_Hashes |-> serialize_json_container(HashesToPy(hashes))]

RECURSIVE Flatten(_, _)
Flatten(lists, i) ==
    IF i > Len(lists) THEN <<>> ELSE lists[i] \o Flatten(lists, i + 1)

\* find_affected_files.py 35-37: read_csv, dropna, map(deserialize_json_container)
ReadCves(table) ==
    LET kept == SelectIdx(table, LAMBDA i : table[i].Git_Commit_Hashes # NoCell, 1)
    IN  [i \in DOMAIN kept |->
            [CVE |-> kept[i].CVE,
             Git_Commit_Hashes |->
                PyToSeq(deserialize_json_container(kept[i].Git_Commit_Hashes, PyNone))]]

\* find_affected_files.py 39-44
FindNeutralCommitList(r, table) ==
    LET rows == ReadCves(table)
        git_commit_hashes == [i \in DOMAIN rows |-> rows[i].Git_Commit_Hashes]
        flat == Flatten(git_commit_hashes, 1)
    IN  sort_git_commit_hashes_topologically(r,
            filter_git_commit_hashes_by_source_file_extensions(r, flat))

\* find_affected_files.py 65-67: the ids of the rows that list the commit
CveListOf(table, neutral_commit_hash) ==
    LET rows == ReadCves(table)
        hit == SelectIdx(rows, LAMBDA i : neutral_commit_hash \in Range(rows[i].Git_Commit_Hashes), 1)
    IN  serialize_json_container(StringsToPy([i \in DOMAIN hit |-> hit[i].CVE]))

\* find_affected_files.py 57-105: the rows one neutral commit adds, a row per
\* yielded file and per commit of vulnerable_commit_list
AffectedRowsOf(r, table, ti, neutral_commit_hash) ==
    LET vulnerable_commit_list ==
            sort_git_commit_hashes_topologically(r,
                find_parent_git_commit_hashes(r, neutral_commit_hash))
        cve_list == CveListOf(table, neutral_commit_hash)
        files == find_changed_source_files_and_lines_since_parent_git_commit(r, neutral_commit_hash)
        nv == Len(vulnerable_commit_list)
    IN  [k \in 1..(Len(files) * nv) |->
            LET file == files[((k - 1) \div nv) + 1]
                vulnerable_commit_hash == vulnerable_commit_list[((k - 1) % nv) + 1]
            IN  [File_Path |-> file[1],
                 Topological_Index |-> ti,
                 Parent_Count |-> nv,
                 Vulnerable_Commit_Hash |-> vulnerable_commit_hash,
                 Vulnerable_Changed_Lines |-> serialize_json_container(RangesToPy(file[2])),
                 Neutral_Commit_Hash |-> neutral_commit_hash,
                 Neutral_Changed_Lines |-> serialize_json_container(RangesToPy(file[3])),
                 CVEs |-> cve_list]]

-----------------------------------------------------------------------------
(* create_file_timeline.py: the checkpoints and the file timeline.          *)

unique_commits_of_every_row(af) ==
    [i \in DOMAIN af |-> <<af[i].Vulnerable_Commit_Hash, af[i].Neutral_Commit_Hash>>]

unique_commits_in_reverse_order(af) ==
    LET pairs == Dedup(unique_commits_of_every_row(af))
    IN  [k \in DOMAIN pairs |-> pairs[Len(pairs) + 1 - k]]

\* create_file_timeline.py 33-35: drop_duplicates(subset=[Vulnerable Commit
\* Hash, Neutral Commit Hash]), as the list of <<vulnerable, neutral>> pairs
unique_commits(af) ==
    Dedup([i \in DOMAIN af |-> <<af[i].Vulnerable_Commit_Hash, af[i].Neutral_Commit_Hash>>])

\* create_file_timeline.py 42-61: create_commit_tuple
create_commit_tuple(af, ti, commit_hash, vulnerable) ==
    LET is_affected == {i \in DOMAIN af :
                            IF vulnerable THEN af[i].Vulnerable_Commit_Hash = commit_hash
                            ELSE af[i].Neutral_Commit_Hash = commit_hash}
    IN  [TopologicalIndex |-> ti, Vulnerable |-> vulnerable, CommitHash |-> commit_hash,
         Cves |-> IF is_affected # {}
                  THEN af[CHOOSE i \in is_affected : \A j \in is_affected : i <= j].CVEs
                  ELSE NoCell]

\* create_file_timeline.py 63-69
BuildCommitListOf(r, af) ==
    LET pairs == unique_commits(af)
    IN  [k \in 1..(2 * Len(pairs) + 1) |->
            IF k = 1 THEN create_commit_tuple(af, 0, find_first_git_commit_hash(r), FALSE)
            ELSE IF k % 2 = 0 THEN create_commit_tuple(af, k - 1, pairs[k \div 2][1], TRUE)
            ELSE create_commit_tuple(af, k - 1, pairs[k \div 2][2], FALSE)]

YesNo_always_no(b) == "No"

YesNo_inverted(b) == IF b THEN "No" ELSE "Yes"

\* create_file_timeline.py 99-100: 'Yes' if from_commit.Vulnerable else 'No'
YesNo(b) == IF b THEN "Yes" ELSE "No"

is_affected_by_the_commit_alone(af, file_path, commit_hash) ==
    \E i \in DOMAIN af : af[i].Vulnerable_Commit_Hash = commit_hash

\* create_file_timeline.py 88: is_affected.any() for a file path and a
\* vulnerable commit
is_affected(af, file_path, commit_hash) ==
    \E i \in DOMAIN af : /\ af[i].File_Path = file_path
                          /\ af[i].Vulnerable_Commit_Hash = commit_hash

\* The cell of a column of row i of the affected-file table, which the
\* second pass of find_affected_files.py has filled.
TableCell(column, i) == <<column, i>>

\* create_file_timeline.py 111-114: affected_files[is_affected].iloc[0], the
\* first row of the table for a file path and a vulnerable commit
FirstAffectedRow(af, file_path, commit_hash) ==
    CHOOSE i \in DOMAIN af :
        /\ af[i].File_Path = file_path /\ af[i].Vulnerable_Commit_Hash = commit_hash
        /\ \A j \in 1..(i - 1) :
                ~(af[j].File_Path = file_path /\ af[j].Vulnerable_Commit_Hash = commit_hash)

\* create_file_timeline.py 109-124: the function or class cell the rows of a
\* file get when from is vulnerable, None when the table has no entry
code_units_of(af, file_path, commit_hash, column) ==
    IF is_affected(af, file_path, commit_hash)
    THEN TableCell(column, FirstAffectedRow(af, file_path, commit_hash))
    ELSE NoCell

\* create_file_timeline.py 84-146: the rows one yielded file adds to the
\* timeline tl
TimelineRowsOf(af, tl, from_commit, to_commit, file) ==
    LET skip == /\ to_commit.Vulnerable
                /\ is_affected(af, file[1], to_commit.CommitHash)
        first_row ==
            [Label |-> Len(tl),
             File_Path |-> file[1],
             Topological_Index |-> from_commit.TopologicalIndex,
             Affected |-> YesNo(from_commit.Vulnerable),
             Vulnerable |-> YesNo(from_commit.Vulnerable),
             Commit_Hash |-> from_commit.CommitHash,
             Changed_Lines |-> serialize_json_container(RangesToPy(file[2])),
             Affected_Functions |->
                IF from_commit.Vulnerable
                THEN code_units_of(af, file[1], from_commit.CommitHash, "Vulnerable File Functions")
                ELSE NoCell,
             Affected_Classes |->
                IF from_commit.Vulnerable
                THEN code_units_of(af, file[1], from_commit.CommitHash, "Vulnerable File Classes")
                ELSE NoCell,
             CVEs |-> IF from_commit.Vulnerable THEN from_commit.Cves ELSE NoCell]
        second_row ==
            [Label |-> Len(tl) + 1,
             File_Path |-> file[1],
             Topological_Index |-> to_commit.TopologicalIndex,
             Affected |-> "Yes",
             Vulnerable |-> "No",
             Commit_Hash |-> to_commit.CommitHash,
             Changed_Lines |-> serialize_json_container(RangesToPy(file[3])),
             Affected_Functions |->
                code_units_of(af, file[1], from_commit.CommitHash, "Neutral File Functions"),
             Affected_Classes |->
                code_units_of(af, file[1], from_commit.CommitHash, "Neutral File Classes"),
             CVEs |-> to_commit.Cves]
    IN  IF skip THEN <<>>
        ELSE IF from_commit.Vulnerable THEN <<first_row, second_row>>
        ELSE <<first_row>>

\* The loop over the files yielded for one checkpoint pair.
RECURSIVE TimelineAfter(_, _, _, _, _, _)
TimelineAfter(af, tl, from_commit, to_commit, files, i) ==
    IF i > Len(files) THEN tl
    ELSE TimelineAfter(af, tl \o TimelineRowsOf(af, tl, from_commit, to_commit, files[i]),
                       from_commit, to_commit, files, i + 1)

WarningsOf_never_warning(af, from_commit, to_commit, file) == 0

\* create_file_timeline.py 109-120: the log.warning one yielded file causes,
\* for a file that is not skipped, a vulnerable from and no entry in the table
WarningsOf(af, from_commit, to_commit, file) ==
    IF /\ ~(to_commit.Vulnerable /\ is_affected(af, file[1], to_commit.CommitHash))
       /\ from_commit.Vulnerable
       /\ ~is_affected(af, file[1], from_commit.CommitHash)
    THEN 1 ELSE 0

\* The warnings of the loop over the files yielded for one checkpoint pair.
RECURSIVE WarningsAfter(_, _, _, _, _)
WarningsAfter(af, from_commit, to_commit, files, i) ==
    IF i > Len(files) THEN 0
    ELSE WarningsOf(af, from_commit, to_commit, files[i])
            + WarningsAfter(af, from_commit, to_commit, files, i + 1)

SameKey(a, b) ==
    /\ a.File_Path = b.File_Path
    /\ a.Topological_Index = b.Topological_Index
    /\ a.Affected = b.Affected

drop_duplicates_keeping_every_row(tl) == tl

\* create_file_timeline.py 152: drop_duplicates(subset=[File Path,
\* Topological Index, Affected]) keeps the first row of each key
drop_duplicates(tl) ==
    SelectIdx(tl, LAMBDA i : \A j \in 1..(i - 1) : ~SameKey(tl[j], tl[i]), 1)

\* create_file_timeline.py 160-166: the rows flagged as consecutive commits
ConsecutiveCommitsOf(tl) ==
    LET flag(i) == /\ i >= 1 /\ i < Len(tl)
                   /\ tl[i].Commit_Hash = tl[i + 1].Commit_Hash
                   /\ tl[i].Vulnerable # tl[i + 1].Vulnerable
    IN  SelectIdx(tl, LAMBDA i : flag(i) \/ flag(i - 1), 1)

files_in_common_of_the_vulnerable_index(tl, neutral_topological_index, vulnerable_topological_index) ==
    LET neutral_files == {tl[i].File_Path : i \in {j \in DOMAIN tl :
                            tl[j].Topological_Index = neutral_topological_index}}
    IN  {tl[i].Label : i \in {j \in DOMAIN tl :
                            /\ tl[j].Topological_Index = vulnerable_topological_index
                            /\ tl[j].File_Path \in neutral_files}}

\* create_file_timeline.py 183-190: the labels of the rows at the neutral
\* index whose file has a row at the vulnerable index
files_in_common(tl, neutral_topological_index, vulnerable_topological_index) ==
    LET vulnerable_files == {tl[i].File_Path : i \in {j \in DOMAIN tl :
                                tl[j].Topological_Index = vulnerable_topological_index}}
    IN  {tl[i].Label : i \in {j \in DOMAIN tl :
                            /\ tl[j].Topological_Index = neutral_topological_index
                            /\ tl[j].File_Path \in vulnerable_files}}

\* timeline.drop(labels)
DropLabels(tl, labels) == SelectIdx(tl, LAMBDA i : tl[i].Label \notin labels, 1)

-----------------------------------------------------------------------------
(* Values of the variables a specification does not use.                    *)

RepoIdle == repository = NoRepository /\ cves = <<>>
TopoIdle == hash_list = <<>> /\ sorted_hash_list = <<>>
MapperIdle == neutral_commit_list = <<>> /\ topological_index = 0 /\ affected_files = <<>>
TimelineIdle ==
    /\ commit_list = <<>> /\ index = 0 /\ timeline = <<>>
    /\ deduplicated = <<>> /\ consecutive_commits = <<>>
CallIdle == operation = "" /\ argument = InvalidHash /\ git_fails = FALSE /\ op_result = <<>>
CheckoutIdle ==
    traversal = "" /\ checkout_list = <<>> /\ position = 0 /\ working_tree = <<>>
UnitIdle == source_files = <<>> /\ code_units = <<>> /\ groups_done = 0
IterateIdle ==
    global_config = <<>> /\ groups_iterated = 0 /\ checkouts = <<>> /\ changed_files = <<>>
OtherIdle == CallIdle /\ CheckoutIdle /\ UnitIdle /\ IterateIdle
pipelineVars == <<repoVars, topoVars, mapperVars, timelineVars, otherVars>>
PipelineIdle == RepoIdle /\ TopoIdle /\ MapperIdle /\ TimelineIdle /\ OtherIdle

CommonIdle ==
    /\ range_1 = <<0, 0>> /\ range_2 = <<0, 0>> /\ overlap_result = "unset"
    /\ container = PyNone /\ default = PyNone /\ container_str = NoCell
    /\ deserialized = PyNone

ParserIdle ==
    /\ diff_result = <<>> /\ line_index = 1
    /\ last_file_path = NoPath /\ last_from_lines_list = <<>> /\ last_to_lines_list = <<>>
    /\ yielded = <<>>

-----------------------------------------------------------------------------
(* SpecDiff: the diff parser run on one diff, a line per step.              *)

InitDiff ==
    /\ pc = "parse"
    /\ CommonIdle
    /\ diff_result \in SeqsUpTo(DiffLines, MaxDiffLines)
    /\ line_index = 1
    /\ last_file_path = NoPath /\ last_from_lines_list = <<>> /\ last_to_lines_list = <<>>
    /\ yielded = <<>>
    /\ error_log = 0
    /\ PipelineIdle

\* One iteration of `for line in diff_result.splitlines()`.
ParseLine ==
    /\ pc = "parse"
    /\ line_index <= Len(diff_result)
    /\ LET st == ParserStep(ParserState, diff_result[line_index]) IN
        /\ SetParserState(st)
        /\ pc' = IF st.raised THEN "raised" ELSE "parse"
    /\ line_index' = line_index + 1
    /\ UNCHANGED <<commonVars, diff_result, pipelineVars>>

\* The loop is over: the trailing `yield from yield_last_file_if_it_exists()`.
EndOfDiff ==
    /\ pc = "parse"
    /\ line_index > Len(diff_result)
    /\ SetParserState(yield_last_file_if_it_exists(ParserState))
    /\ pc' = "done"
    /\ UNCHANGED <<commonVars, diff_result, line_index, pipelineVars>>

NextDiff == ParseLine \/ EndOfDiff

SpecDiff == InitDiff /\ [][NextDiff]_vars

-----------------------------------------------------------------------------
(* SpecOverlap: check_range_overlap called on a pair of ranges.             *)

InitOverlap ==
    /\ pc = "call"
    /\ range_1 \in OverlapPoints \X OverlapPoints
    /\ range_2 \in OverlapPoints \X OverlapPoints
    /\ overlap_result = "unset"
    /\ container = PyNone /\ default = PyNone /\ container_str = NoCell
    /\ deserialized = PyNone
    /\ ParserIdle
    /\ error_log = 0
    /\ PipelineIdle

CallOverlap ==
    /\ pc = "call"
    /\ overlap_result' = IF check_range_overlap(range_1, range_2) THEN "True" ELSE "False"
    \* log.warning for a malformed argument (the first one found)
    /\ error_log' = IF range_1[1] > range_1[2] \/ range_2[1] > range_2[2] THEN 1 ELSE 0
    /\ pc' = "done"
    /\ UNCHANGED <<range_1, range_2, container, default, container_str, deserialized, parserVars,
                   pipelineVars>>

NextOverlap == CallOverlap

SpecOverlap == InitOverlap /\ [][NextOverlap]_vars

-----------------------------------------------------------------------------
(* SpecJson: a container written to a cell and read back.                   *)

InitJson ==
    /\ pc = "serialize"
    /\ range_1 = <<0, 0>> /\ range_2 = <<0, 0>> /\ overlap_result = "unset"
    /\ container \in JsonContainers
    \* the callers pass no default (None) or an empty list
    /\ default \in {PyNone, PyList(<<>>)}
    /\ container_str = NoCell
    /\ deserialized = PyNone
    /\ ParserIdle
    /\ error_log = 0
    /\ PipelineIdle

Serialize ==
    /\ pc = "serialize"
    /\ container_str' = serialize_json_container(container)
    /\ pc' = "deserialize"
    /\ UNCHANGED <<range_1, range_2, overlap_result, container, default, deserialized,
                   parserVars, error_log, pipelineVars>>

Deserialize ==
    /\ pc = "deserialize"
    /\ deserialized' = deserialize_json_container(container_str, default)
    /\ pc' = "done"
    /\ UNCHANGED <<range_1, range_2, overlap_result, container, default, container_str,
                   parserVars, error_log, pipelineVars>>

NextJson == Serialize \/ Deserialize

SpecJson == InitJson /\ [][NextJson]_vars

-----------------------------------------------------------------------------
(* SpecTopo: sort_git_commit_hashes_topologically called on a hash list.    *)

TopoRepositories ==
    {Repository(l, g, [c \in 2..MaxCommit |-> FileSet], d, {}) :
        l \in BOOLEAN, g \in Graphs, d \in [Commits -> 1..MaxDate]}

InitTopo ==
    /\ pc = "call"
    /\ repository \in TopoRepositories
    /\ cves = <<>>
    /\ hash_list \in SeqsUpTo(Commits \cup {InvalidHash}, MaxHashes)
    /\ sorted_hash_list = <<>>
    /\ CommonIdle /\ ParserIdle /\ MapperIdle /\ TimelineIdle /\ OtherIdle
    /\ error_log = 0

CallTopoSort ==
    /\ pc = "call"
    /\ sorted_hash_list' = sort_git_commit_hashes_topologically(repository, hash_list)
    \* log.error when the git command fails
    /\ error_log' = IF /\ repository.loaded /\ Len(hash_list) > 1
                       /\ \E i \in DOMAIN hash_list : hash_list[i] \notin Commits
                    THEN 1 ELSE 0
    /\ pc' = "done"
    /\ UNCHANGED <<otherVars, commonVars, parserVars, repoVars, hash_list, mapperVars, timelineVars>>

NextTopo == CallTopoSort

SpecTopo == InitTopo /\ [][NextTopo]_vars

-----------------------------------------------------------------------------
(* Spec: find_affected_files.py followed by create_file_timeline.py on one  *)
(* project.                                                                 *)

\* Committer dates: all commits made within the same second (a scripted
\* import, a rebase), or every commit later than the ones before it.
DateProfiles == {[c \in Commits |-> 1], [c \in Commits |-> c]}

\* What the commits after the root touch; of two choices that differ by
\* exchanging the two files, the one whose first single-file commit touches
\* the first file.
TouchChoices ==
    {touched \in [2..MaxCommit -> SUBSET FileSet] :
        \A c \in 2..MaxCommit :
            touched[c] = {Files[2]} =>
                \E b \in 2..(c - 1) : Cardinality(touched[b]) = 1}

PipelineRepositories ==
    {Repository(TRUE, g, touched, d, stray) :
        g \in Graphs, touched \in TouchChoices,
        d \in DateProfiles, stray \in {{}, Commits}}

\* The "cve" CSV: the fix commits of a first vulnerability and, for a second
\* one, none or the newest commit.
CveTables ==
    {<<CveRow(CveIds[1], Ascending(h1)), CveRow(CveIds[2], h2)>> :
        h1 \in {h \in SUBSET Commits : h # {} /\ Cardinality(h) <= MaxFixes},
        h2 \in {<<>>, <<MaxCommit>>}}

Init ==
    /\ pc = "find_affected_files"
    /\ repository \in PipelineRepositories
    /\ cves \in CveTables
    /\ TopoIdle /\ MapperIdle /\ TimelineIdle
    /\ CommonIdle /\ ParserIdle /\ OtherIdle
    /\ error_log = 0

\* find_affected_files.py 35-45
FindNeutralCommits ==
    /\ pc = "find_affected_files"
    /\ neutral_commit_list' = FindNeutralCommitList(repository, cves)
    /\ pc' = "first_pass"
    /\ UNCHANGED <<otherVars, commonVars, parserVars, error_log, repoVars, topoVars,
                   topological_index, affected_files, timelineVars>>

\* find_affected_files.py 57-105: one iteration of the loop over
\* neutral_commit_list
FirstPassStep ==
    /\ pc = "first_pass"
    /\ topological_index < Len(neutral_commit_list)
    /\ affected_files' = affected_files \o
            AffectedRowsOf(repository, cves, topological_index,
                           neutral_commit_list[topological_index + 1])
    /\ topological_index' = topological_index + 1
    /\ UNCHANGED <<pc, otherVars, commonVars, parserVars, error_log, repoVars, topoVars,
                   neutral_commit_list, timelineVars>>

\* create_file_timeline.py 31-69
BuildCommitList ==
    /\ pc = "first_pass"
    /\ topological_index = Len(neutral_commit_list)
    /\ commit_list' = BuildCommitListOf(repository, affected_files)
    /\ index' = 0
    /\ pc' = "main_pass"
    /\ UNCHANGED <<otherVars, commonVars, parserVars, error_log, repoVars, topoVars, mapperVars,
                   timeline, deduplicated, consecutive_commits>>

\* create_file_timeline.py 77-146: one iteration of the loop over
\* zip(commit_list, commit_list[1:])
MainPassStep ==
    /\ pc = "main_pass"
    /\ index + 1 < Len(commit_list)
    /\ LET from_commit == commit_list[index + 1]
           to_commit == commit_list[index + 2]
           files == find_changed_source_files_and_lines_between_git_commits(
                        repository, from_commit.CommitHash, to_commit.CommitHash)
       IN  IF from_commit.Vulnerable = to_commit.Vulnerable
           THEN /\ pc' = "assert_failed"
                /\ UNCHANGED <<index, timeline, error_log>>
           ELSE /\ timeline' = TimelineAfter(affected_files, timeline, from_commit, to_commit,
                                             files, 1)
                /\ error_log' = error_log
                                 + WarningsAfter(affected_files, from_commit, to_commit, files, 1)
                /\ index' = index + 1
                /\ pc' = pc
    /\ UNCHANGED <<otherVars, commonVars, parserVars, repoVars, topoVars, mapperVars,
                   commit_list, deduplicated, consecutive_commits>>

\* create_file_timeline.py 152-166
DropDuplicates ==
    /\ pc = "main_pass"
    /\ index + 1 >= Len(commit_list)
    /\ timeline' = drop_duplicates(timeline)
    /\ deduplicated' = timeline'
    /\ consecutive_commits' = ConsecutiveCommitsOf(timeline')
    /\ pc' = "correction"
    /\ UNCHANGED <<otherVars, commonVars, parserVars, error_log, repoVars, topoVars, mapperVars,
                   commit_list, index>>

\* create_file_timeline.py 168-193: one iteration of the loop over
\* zip(consecutive_commits, consecutive_commits)
CorrectionStep ==
    /\ pc = "correction"
    /\ Len(consecutive_commits) >= 2
    /\ LET neutral_row == consecutive_commits[1]
           vulnerable_row == consecutive_commits[2]
           neutral_cve_list == deserialize_json_container(neutral_row.CVEs, PyNone)
           vulnerable_cve_list == deserialize_json_container(vulnerable_row.CVEs, PyNone)
       IN  IF neutral_row.Commit_Hash # vulnerable_row.Commit_Hash
           THEN pc' = "assert_failed" /\ UNCHANGED timeline
           ELSE IF neutral_cve_list = PyNone \/ vulnerable_cve_list = PyNone
           \* set(None) raises TypeError
           THEN pc' = "raised" /\ UNCHANGED timeline
           ELSE /\ pc' = pc
                /\ timeline' =
                    IF lists_have_elements_in_common(neutral_cve_list, vulnerable_cve_list)
                    THEN DropLabels(timeline,
                            files_in_common(timeline, neutral_row.Topological_Index,
                                            vulnerable_row.Topological_Index))
                    ELSE timeline
    /\ consecutive_commits' = Tail(Tail(consecutive_commits))
    /\ UNCHANGED <<otherVars, commonVars, parserVars, error_log, repoVars, topoVars, mapperVars,
                   commit_list, index, deduplicated>>

\* create_file_timeline.py 195-196
WriteTimeline ==
    /\ pc = "correction"
    /\ Len(consecutive_commits) < 2
    /\ pc' = "done"
    /\ UNCHANGED <<otherVars, commonVars, parserVars, error_log, repoVars, topoVars, mapperVars,
                   timelineVars>>

Next ==
    \/ FindNeutralCommits
    \/ FirstPassStep
    \/ BuildCommitList
    \/ MainPassStep
    \/ DropDuplicates
    \/ CorrectionStep
    \/ WriteTimeline

Spec == Init /\ [][Next]_vars

\* The same two scripts on projects in which the second file does not exist
\* in every commit: commits later than one another, the first file touched
\* by any of them, the second file present in one commit at most.
AddedFileRepositories ==
    {WithSecondFileOnlyIn(
        Repository(TRUE, g, touched, [c \in Commits |-> c], {}), present) :
        g \in Graphs, touched \in [2..MaxCommit -> SUBSET {Files[1]}],
        present \in {{}} \cup {{c} : c \in Commits}}

InitAddedFile ==
    /\ pc = "find_affected_files"
    /\ repository \in AddedFileRepositories
    /\ cves \in CveTables
    /\ TopoIdle /\ MapperIdle /\ TimelineIdle
    /\ CommonIdle /\ ParserIdle /\ OtherIdle
    /\ error_log = 0

SpecAddedFile == InitAddedFile /\ [][Next]_vars

-----------------------------------------------------------------------------
(* SpecSecondPass: find_affected_files.py on its own, the first pass and    *)
(* then the second, which checks the commits of each group out and parses   *)
(* the files of its rows.  source_files is the working tree, a content per  *)
(* file.  A content stands for its text: content v defines one function, at *)
(* lines 1..v, and one struct, at line v + 1.                               *)

\* git checkout [COMMIT] -- . : the files of the commit are written over the
\* working tree; a file the commit does not have is left as it is.
GitCheckoutOver(r, files, commit_hash) ==
    [f \in FileSet |-> IF r.tree[commit_hash][f] # Absent THEN r.tree[commit_hash][f]
                       ELSE files[f]]

\* project.py 531-550: checkout_entire_git_commit, as <<success, the files of
\* the working tree>>
checkout_entire_git_commit_over(r, files, commit_hash) ==
    IF ~r.loaded THEN <<FALSE, files>>
    ELSE IF commit_hash \notin Commits THEN <<FALSE, files>>
    ELSE <<TRUE, GitCheckoutOver(r, files, commit_hash)>>

\* project.py 552-562: git reset --hard, the working tree holds the files of
\* HEAD, the newest commit
hard_reset_git_head_over(r, files) == IF ~r.loaded THEN files ELSE r.tree[MaxCommit]

\* The file can be opened in the working tree.
IsReadable(files, file_path) == file_path \in FileSet /\ files[file_path] # Absent

\* What clang reports for content v: a code unit is a dict of its name,
\* signature and first and last line, a struct with its kind.
FunctionsOfContent(v) ==
    <<PyDict(<< <<"Name", PyStr("f")>>, <<"Signature", PyStr("f()")>>,
                <<"Lines", PyList(<<PyInt(1), PyInt(v)>>)>> >>)>>
ClassesOfContent(v) ==
    <<PyDict(<< <<"Name", PyStr("S")>>, <<"Signature", PyStr("S")>>,
                <<"Lines", PyList(<<PyInt(v + 1), PyInt(v + 1)>>)>>,
                <<"Kind", PyStr("Struct")>> >>)>>

\* project.py 660-731: find_code_units_in_file, as <<function_list, class_list>>;
\* both are empty when the file cannot be opened
find_code_units_in_file(files, file_path) ==
    IF ~IsReadable(files, file_path) THEN << <<>>, <<>> >>
    ELSE <<FunctionsOfContent(files[file_path]), ClassesOfContent(files[file_path])>>

\* unit['Lines'] of a code-unit dict, as <<begin, end>>
LinesOfUnit(unit) ==
    LET item == unit.v[CHOOSE i \in DOMAIN unit.v : unit.v[i][1] = "Lines"]
    IN  <<item[2].v[1].v, item[2].v[2].v>>

\* find_affected_files.py 130-131: the changed lines of a row's cell, [] for
\* an empty cell, as a list of <<begin, end>>
ChangedLinesOf(cell) ==
    LET changed_lines == deserialize_json_container(cell, PyList(<<>>))
    IN  [i \in DOMAIN changed_lines.v |->
            <<changed_lines.v[i].v[1].v, changed_lines.v[i].v[2].v>>]

unit_status_whatever_the_commit(is_commit_vulnerable, unit, changed_lines) ==
    YesNo(\E i \in DOMAIN changed_lines : check_range_overlap(LinesOfUnit(unit), changed_lines[i]))

\* find_affected_files.py 136-137: was_unit_changed and unit_status
unit_status(is_commit_vulnerable, unit, changed_lines) ==
    YesNo(/\ is_commit_vulnerable
          /\ \E i \in DOMAIN changed_lines :
                check_range_overlap(LinesOfUnit(unit), changed_lines[i]))

\* find_affected_files.py 135-138: unit.update({'Vulnerable': unit_status})
\* for each unit of the list
UpdateUnits(units, is_commit_vulnerable, changed_lines) ==
    [i \in DOMAIN units |->
        PyDict(Append(units[i].v,
                      <<"Vulnerable",
                        PyStr(unit_status(is_commit_vulnerable, units[i], changed_lines))>>))]

\* The four code-unit cells of a row the second pass has not come to.
NoCodeUnits ==
    [Vulnerable_File_Functions |-> NoCell, Vulnerable_File_Classes |-> NoCell,
     Neutral_File_Functions |-> NoCell, Neutral_File_Classes |-> NoCell]

\* find_affected_files.py 114: the key a row is grouped by
GroupKey(row) ==
    <<row.Topological_Index, row.Vulnerable_Commit_Hash, row.Neutral_Commit_Hash>>

KeyBefore(a, b) ==
    \/ a[1] < b[1]
    \/ a[1] = b[1] /\ a[2] < b[2]
    \/ a[1] = b[1] /\ a[2] = b[2] /\ a[3] < b[3]

\* find_affected_files.py 114-115: groupby, the keys of the groups in the
\* order the loop takes them, ascending
grouped_files(af) ==
    LET keys == {GroupKey(af[i]) : i \in DOMAIN af}
    IN  [k \in 1..Cardinality(keys) |->
            CHOOSE x \in keys : Cardinality({y \in keys : KeyBefore(y, x)}) = k - 1]

\* find_affected_files.py 117-143: checkout_affected_files_and_find_code_units
\* for the group of key `key`, on st = [files, cells, errors]
checkout_affected_files_and_find_code_units(r, af, key, st, commit_hash, is_commit_vulnerable) ==
    LET checkout == checkout_entire_git_commit_over(r, st.files, commit_hash)
        files == checkout[2]
        group_df == {i \in DOMAIN af : GroupKey(af[i]) = key}
        CellsOf(i) ==
            LET units == find_code_units_in_file(files, af[i].File_Path)
                changed_lines ==
                    ChangedLinesOf(IF is_commit_vulnerable THEN af[i].Vulnerable_Changed_Lines
                                   ELSE af[i].Neutral_Changed_Lines)
                function_cell == serialize_json_container(
                    PyList(UpdateUnits(units[1], is_commit_vulnerable, changed_lines)))
                class_cell == serialize_json_container(
                    PyList(UpdateUnits(units[2], is_commit_vulnerable, changed_lines)))
            IN  IF is_commit_vulnerable
                THEN [st.cells[i] EXCEPT !.Vulnerable_File_Functions = function_cell,
                                         !.Vulnerable_File_Classes = class_cell]
                ELSE [st.cells[i] EXCEPT !.Neutral_File_Functions = function_cell,
                                         !.Neutral_File_Classes = class_cell]
    IN  IF ~checkout[1]
        \* log.error of line 143, after that of project.py 544 when git failed
        THEN [st EXCEPT !.errors = @ + (IF r.loaded THEN 2 ELSE 1)]
        ELSE [files |-> files,
              cells |-> [i \in DOMAIN af |-> IF i \in group_df THEN CellsOf(i) ELSE st.cells[i]],
              \* log.error of project.py 683 for each file that cannot be opened
              errors |-> st.errors
                         + Cardinality({i \in group_df : ~IsReadable(files, af[i].File_Path)})]

InitSecondPass ==
    /\ pc = "find_affected_files"
    /\ repository \in AddedFileRepositories
    /\ cves \in CveTables
    /\ TopoIdle /\ MapperIdle /\ TimelineIdle
    /\ CommonIdle /\ ParserIdle /\ OtherIdle
    /\ error_log = 0

\* find_affected_files.py 112-114: the first pass is over; the working tree
\* holds the files of HEAD
StartSecondPass ==
    /\ pc = "first_pass"
    /\ topological_index = Len(neutral_commit_list)
    /\ source_files' = repository.tree[MaxCommit]
    /\ code_units' = [i \in DOMAIN affected_files |-> NoCodeUnits]
    /\ groups_done' = 0
    /\ pc' = "second_pass"
    /\ UNCHANGED <<commonVars, parserVars, error_log, repoVars, topoVars, mapperVars,
                   timelineVars, callVars, checkoutVars, iterateVars>>

\* find_affected_files.py 115-151: one group of the second pass, the
\* vulnerable commit and then the neutral one
SecondPassStep ==
    /\ pc = "second_pass"
    /\ groups_done < Len(grouped_files(affected_files))
    /\ LET key == grouped_files(affected_files)[groups_done + 1]
           before == [files |-> source_files, cells |-> code_units, errors |-> error_log]
           vulnerable == checkout_affected_files_and_find_code_units(
                            repository, affected_files, key, before, key[2], TRUE)
           neutral == checkout_affected_files_and_find_code_units(
                            repository, affected_files, key, vulnerable, key[3], FALSE)
       IN  /\ source_files' = neutral.files
           /\ code_units' = neutral.cells
           /\ error_log' = neutral.errors
    /\ groups_done' = groups_done + 1
    /\ UNCHANGED <<pc, commonVars, parserVars, repoVars, topoVars, mapperVars, timelineVars,
                   callVars, checkoutVars, iterateVars>>

\* find_affected_files.py 153-154: the loop is over, the table is written
\* and the working tree is hard reset
FinishSecondPass ==
    /\ pc = "second_pass"
    /\ groups_done = Len(grouped_files(affected_files))
    /\ source_files' = hard_reset_git_head_over(repository, source_files)
    /\ pc' = "done"
    /\ UNCHANGED <<commonVars, parserVars, error_log, repoVars, topoVars, mapperVars,
                   timelineVars, callVars, checkoutVars, iterateVars, code_units, groups_done>>

NextSecondPass ==
    \/ FindNeutralCommits
    \/ FirstPassStep
    \/ StartSecondPass
    \/ SecondPassStep
    \/ FinishSecondPass

SpecSecondPass == InitSecondPass /\ [][NextSecondPass]_vars

-----------------------------------------------------------------------------
(* SpecCall: one method of Project that runs a git command, called on its   *)
(* own.  The command raises GitCommandError when git rejects an argument or *)
(* when the environment makes it fail (git_fails).                          *)

Operations ==
    {"find_full_git_commit_hash", "find_parent_git_commit_hashes",
     "sort_git_commit_hashes_topologically",
     "filter_git_commit_hashes_by_source_file_extensions",
     "find_tag_name_from_git_commit_hash", "find_author_date_from_git_commit_hash",
     "find_first_git_commit_hash",
     "find_changed_source_files_and_lines_since_parent_git_commit",
     "checkout_entire_git_commit", "hard_reset_git_head"}

\* What a method returns.
NoneValue == [t |-> "None", v |-> <<>>]
ListValue(s) == [t |-> "list", v |-> s]
StrValue(x) == [t |-> "str", v |-> <<x>>]
BoolValue(b) == [t |-> "bool", v |-> <<b>>]

\* `if self.repository is None: return ...`
RepositoryIsNone(value) == [result |-> value, logged |-> FALSE, raised |-> FALSE]
\* the try block ran to its end
RanToEnd(value) == [result |-> value, logged |-> FALSE, raised |-> FALSE]

GitCommandErrorCaughtWithoutLog(value) == [result |-> value, logged |-> FALSE, raised |-> FALSE]

\* `except git.exc.GitCommandError as error:` followed by the fallback value
\* and log.error
GitCommandErrorCaught(value) == [result |-> value, logged |-> TRUE, raised |-> FALSE]

\* Does git reject the command line?  An unknown revision is fatal to show,
\* log, rev-list, diff and checkout; name-rev skips it and exits normally;
\* the root has no first parent to diff against.
GitRejects(op, r, h) ==
    CASE op \in {"find_tag_name_from_git_commit_hash", "find_first_git_commit_hash",
                 "hard_reset_git_head"} -> FALSE
      [] op = "find_changed_source_files_and_lines_since_parent_git_commit" ->
            h \notin Commits \/ r.parents[h] = <<>>
      [] OTHER -> h \notin Commits

\* project.py: the methods, each called with the commit hash h (the sort with
\* the list [first commit, h], the filter with the list [h])
CallOperation(op, r, h, fails) ==
    LET error == fails \/ GitRejects(op, r, h) IN
    CASE op = "find_full_git_commit_hash" ->
            IF ~r.loaded THEN RepositoryIsNone(NoneValue)
            ELSE IF error THEN GitCommandErrorCaught(NoneValue)
            ELSE RanToEnd(StrValue(h))
      [] op = "find_parent_git_commit_hashes" ->
            IF ~r.loaded THEN RepositoryIsNone(ListValue(<<>>))
            ELSE IF error THEN GitCommandErrorCaught(ListValue(<<>>))
            ELSE RanToEnd(ListValue(find_parent_git_commit_hashes(r, h)))
      [] op = "sort_git_commit_hashes_topologically" ->
            IF ~r.loaded THEN RepositoryIsNone(ListValue(<<>>))
            ELSE IF error THEN GitCommandErrorCaught(ListValue(<<>>))
            ELSE RanToEnd(ListValue(sort_git_commit_hashes_topologically(r,
                                        <<find_first_git_commit_hash(r), h>>)))
      [] op = "filter_git_commit_hashes_by_source_file_extensions" ->
            IF ~r.loaded THEN RepositoryIsNone(ListValue(<<>>))
            ELSE IF error THEN GitCommandErrorCaught(ListValue(<<>>))
            ELSE RanToEnd(ListValue(filter_git_commit_hashes_by_source_file_extensions(r, <<h>>)))
      [] op = "find_tag_name_from_git_commit_hash" ->
            IF ~r.loaded THEN RepositoryIsNone(NoneValue)
            ELSE IF error THEN GitCommandErrorCaught(NoneValue)
            \* the repository has no tags: "undefined", and nothing for an
            \* unknown hash
            ELSE RanToEnd(StrValue(IF h \in Commits THEN "undefined" ELSE ""))
      [] op = "find_author_date_from_git_commit_hash" ->
            IF ~r.loaded THEN RepositoryIsNone(NoneValue)
            ELSE IF error THEN GitCommandErrorCaught(NoneValue)
            ELSE RanToEnd(StrValue(r.date[h]))
      [] op = "find_first_git_commit_hash" ->
            IF ~r.loaded THEN RepositoryIsNone(NoneValue)
            ELSE IF error THEN GitCommandErrorCaught(NoneValue)
            ELSE RanToEnd(StrValue(find_first_git_commit_hash(r)))
      [] op = "find_changed_source_files_and_lines_since_parent_git_commit" ->
            IF ~r.loaded THEN RepositoryIsNone(ListValue(<<>>))
            ELSE IF error THEN GitCommandErrorCaught(ListValue(<<>>))
            ELSE RanToEnd(ListValue(
                    find_changed_source_files_and_lines_since_parent_git_commit(r, h)))
      [] op = "checkout_entire_git_commit" ->
            IF ~r.loaded THEN RepositoryIsNone(BoolValue(FALSE))
            ELSE IF error THEN GitCommandErrorCaught(BoolValue(FALSE))
            ELSE RanToEnd(BoolValue(TRUE))
      [] op = "hard_reset_git_head" ->
            IF ~r.loaded THEN RepositoryIsNone(NoneValue)
            ELSE IF error THEN GitCommandErrorCaught(NoneValue)
            ELSE RanToEnd(NoneValue)

CallRepositories ==
    {Repository(l, g, [c \in 2..MaxCommit |-> {Files[1]}], [c \in Commits |-> c], {}) :
        l \in BOOLEAN, g \in Graphs}

InitCall ==
    /\ pc = "call"
    /\ repository \in CallRepositories
    /\ cves = <<>>
    /\ operation \in Operations
    /\ argument \in Commits \cup {InvalidHash}
    /\ git_fails \in BOOLEAN
    /\ op_result = <<>>
    /\ CommonIdle /\ ParserIdle /\ TopoIdle /\ MapperIdle /\ TimelineIdle /\ CheckoutIdle /\ UnitIdle /\ IterateIdle
    /\ error_log = 0

Call ==
    /\ pc = "call"
    /\ LET outcome == CallOperation(operation, repository, argument, git_fails) IN
        /\ op_result' = outcome.result
        /\ error_log' = IF outcome.logged THEN error_log + 1 ELSE error_log
        /\ pc' = IF outcome.raised THEN "raised" ELSE "returned"
    /\ UNCHANGED <<commonVars, parserVars, repoVars, topoVars, mapperVars, timelineVars,
                   operation, argument, git_fails, checkoutVars, unitVars, iterateVars>>

NextCall == Call

SpecCall == InitCall /\ [][NextCall]_vars

-----------------------------------------------------------------------------
(* SpecCheckout: a traversal that checks commits out, either the second     *)
(* pass of find_affected_files.py or a consumer's loop over                 *)
(* iterate_and_checkout_file_timeline_in_repository.  working_tree is <<>>  *)
(* when it holds the files of HEAD and <<c>> when the files of commit c     *)
(* were checked out over it.                                                *)

\* project.py 531-550: checkout_entire_git_commit, as <<success, working tree>>
checkout_entire_git_commit(r, tree, commit_hash) ==
    IF ~r.loaded THEN <<FALSE, tree>>
    ELSE IF commit_hash \notin Commits THEN <<FALSE, tree>>
    ELSE <<TRUE, <<commit_hash>>>>

\* project.py 552-562: hard_reset_git_head
hard_reset_git_head(r, tree) == IF ~r.loaded THEN tree ELSE <<>>

\* The working tree after the checkouts of one group, each one attempted.
RECURSIVE CheckoutAll(_, _, _, _)
CheckoutAll(r, tree, group, i) ==
    IF i > Len(group) THEN tree
    ELSE CheckoutAll(r, checkout_entire_git_commit(r, tree, group[i])[2], group, i + 1)

\* The checkouts of one group that fail, each logged.
FailedCheckouts(r, group) ==
    Cardinality({i \in DOMAIN group : ~checkout_entire_git_commit(r, <<>>, group[i])[1]})

\* The first group from position p on whose checkout succeeds (the generator
\* yields there), or one past the last group.
RECURSIVE NextYield(_, _, _)
NextYield(r, groups, p) ==
    IF p > Len(groups) THEN p
    ELSE IF checkout_entire_git_commit(r, <<>>, groups[p][1])[1] THEN p
    ELSE NextYield(r, groups, p + 1)

Hashes == Commits \cup {InvalidHash}

InitCheckout ==
    /\ pc = "start"
    /\ repository \in {NoRepository, [NoRepository EXCEPT !.loaded = TRUE]}
    /\ cves = <<>>
    /\ traversal \in {"second_pass", "iterate"}
    \* a group of the second pass checks out its vulnerable and its neutral
    \* commit, a group of the timeline one commit
    /\ checkout_list \in
            IF traversal = "second_pass"
            THEN SeqsUpTo({<<v, n>> : v, n \in Hashes}, MaxGroups)
            ELSE SeqsUpTo({<<h>> : h \in Hashes}, MaxGroups)
    /\ position = 0
    /\ working_tree = <<>>
    /\ CommonIdle /\ ParserIdle /\ TopoIdle /\ MapperIdle /\ TimelineIdle /\ CallIdle /\ UnitIdle /\ IterateIdle
    /\ error_log = 0

\* find_affected_files.py 114-151: one group of the second pass
SecondPassGroup ==
    /\ traversal = "second_pass"
    /\ pc = "start"
    /\ position < Len(checkout_list)
    /\ working_tree' = CheckoutAll(repository, working_tree, checkout_list[position + 1], 1)
    /\ error_log' = error_log + FailedCheckouts(repository, checkout_list[position + 1])
    /\ position' = position + 1
    /\ UNCHANGED <<pc, commonVars, parserVars, repoVars, topoVars, mapperVars, timelineVars,
                   callVars, unitVars, iterateVars, traversal, checkout_list>>

\* find_affected_files.py 153-154: the loop is over
SecondPassEnd ==
    /\ traversal = "second_pass"
    /\ pc = "start"
    /\ position = Len(checkout_list)
    /\ working_tree' = hard_reset_git_head(repository, working_tree)
    /\ pc' = "done"
    /\ UNCHANGED <<commonVars, parserVars, error_log, repoVars, topoVars, mapperVars,
                   timelineVars, callVars, unitVars, iterateVars, traversal, checkout_list, position>>

\* project.py 769-833: the consumer asks for the next item; the generator runs
\* from where it was suspended to its next yield, or to its end and the hard
\* reset of line 833.
ConsumerNext ==
    /\ traversal = "iterate"
    /\ pc \in {"start", "yielded"}
    /\ LET p == NextYield(repository, checkout_list, position + 1) IN
        /\ position' = IF p > Len(checkout_list) THEN Len(checkout_list) ELSE p
        /\ error_log' = error_log + (p - (position + 1))
        /\ working_tree' =
                IF p > Len(checkout_list) THEN hard_reset_git_head(repository, working_tree)
                ELSE checkout_entire_git_commit(repository, working_tree, checkout_list[p][1])[2]
        /\ pc' = IF p > Len(checkout_list) THEN "done" ELSE "yielded"
    /\ UNCHANGED <<commonVars, parserVars, repoVars, topoVars, mapperVars, timelineVars,
                   callVars, unitVars, iterateVars, traversal, checkout_list>>

\* The consumer leaves its loop (break, return, an exception in its body):
\* the generator is closed where it is suspended, GeneratorExit is raised at
\* the yield of line 827, and with no try/finally around it nothing else runs.
ConsumerStops ==
    /\ traversal = "iterate"
    /\ pc = "yielded"
    /\ pc' = "closed"
    /\ UNCHANGED <<commonVars, parserVars, error_log, repoVars, topoVars, mapperVars,
                   timelineVars, callVars, unitVars, iterateVars, checkoutVars>>

NextCheckout == SecondPassGroup \/ SecondPassEnd \/ ConsumerNext \/ ConsumerStops

\* Every step that can be taken is eventually taken.
SpecCheckout == InitCheckout /\ [][NextCheckout]_vars /\ WF_vars(NextCheckout)

-----------------------------------------------------------------------------
(* SpecIterate: iterate_and_checkout_file_timeline_in_repository on a       *)
(* timeline file, a step per group of its loop.  The timeline is the file   *)
(* as read; working_tree is as in SpecCheckout.                             *)

\* Most rows of a timeline file drawn.
MaxRows == 3

\* project.py 745-748: start_at_checkout_commit_index
AllowedFromIndex(tl, config) ==
    IF config.start_at_checkout_commit_index = PyNone THEN tl
    ELSE SelectIdx(tl, LAMBDA i : tl[i].Topological_Index
                                    >= config.start_at_checkout_commit_index.v, 1)

\* project.py 750-762: checkout_commit_index_list, each index listed allows
\* itself and the two after it
AllowedByIndexList(tl, config) ==
    IF config.checkout_commit_index_list = PyNone THEN tl
    ELSE LET allowed_commit_list ==
                UNION {{n, n + 1, n + 2} : n \in Range(PyToSeq(config.checkout_commit_index_list))}
         IN  SelectIdx(tl, LAMBDA i : tl[i].Topological_Index \in allowed_commit_list, 1)

\* project.py 739-762: the rows of the file the configuration keeps
AllowedTimeline(tl, config) == AllowedByIndexList(AllowedFromIndex(tl, config), config)

\* project.py 751-753, 771: the group is passed over
IsFilteredOut(group_index, config) ==
    /\ config.checkout_commit_index_list # PyNone
    /\ IsTruthy(config.checkout_commit_index_list)
    /\ group_index \notin Range(PyToSeq(config.checkout_commit_index_list))

\* project.py 764: the key a row is grouped by
TimelineKey(row) ==
    <<row.Topological_Index, row.Affected, row.Vulnerable, row.Commit_Hash, row.CVEs>>

\* The order of the keys: the index, then 'No' before 'Yes', the hash, and a
\* text before an empty cell (dropna=False keeps the empty ones, last).
TimelineKeyBefore(a, b) ==
    LET NoBeforeYes(x, y) == x = "No" /\ y = "Yes" IN
    \/ a[1] < b[1]
    \/ a[1] = b[1] /\ NoBeforeYes(a[2], b[2])
    \/ a[1] = b[1] /\ a[2] = b[2] /\ NoBeforeYes(a[3], b[3])
    \/ a[1] = b[1] /\ a[2] = b[2] /\ a[3] = b[3] /\ a[4] < b[4]
    \/ a[1] = b[1] /\ a[2] = b[2] /\ a[3] = b[3] /\ a[4] = b[4] /\ a[5] # NoCell /\ b[5] = NoCell

\* project.py 764, 769: groupby, the keys of the groups in the order the loop
\* takes them
grouped_timeline(tl) ==
    LET keys == {TimelineKey(tl[i]) : i \in DOMAIN tl}
    IN  [k \in 1..Cardinality(keys) |->
            CHOOSE x \in keys : Cardinality({y \in keys : TimelineKeyBefore(y, x)}) = k - 1]

\* project.py 788: is_next_commit
is_next_commit(tl, group_index) ==
    {i \in DOMAIN tl : \/ tl[i].Topological_Index = group_index + 1
                       \/ tl[i].Topological_Index = group_index + 2}

commit_hash_to_checkout_always_the_groups_own(tl, key) == key[4]

\* project.py 780-795: commit_hash_to_checkout
commit_hash_to_checkout(tl, key) ==
    IF key[2] = "Yes" THEN key[4]
    ELSE IF is_next_commit(tl, key[1]) # {}
    THEN LET first == CHOOSE i \in is_next_commit(tl, key[1]) :
                            \A j \in is_next_commit(tl, key[1]) : i <= j
         IN  tl[first].Commit_Hash
    ELSE key[4]

\* project.py 800-827: the ChangedFiles tuple of a group (the paths; the code
\* units of the rows are left out)
ChangedFiles(tl, key) ==
    LET group_df == SelectIdx(tl, LAMBDA i : TimelineKey(tl[i]) = key, 1)
    IN  [TopologicalIndex |-> key[1], Affected |-> key[2] = "Yes", Vulnerable |-> key[3] = "Yes",
         CommitHash |-> key[4],
         Cves |-> IF key[5] = NoCell THEN PyNone ELSE key[5],
         RelativeFilePaths |-> [i \in DOMAIN group_df |-> group_df[i].File_Path]]

\* The rows of a timeline file: a row of a vulnerable checkpoint, the
\* to-side row of a neutral one, or a not-affected row.
TimelineFileRows ==
    {[File_Path |-> Files[1], Topological_Index |-> n, Affected |-> a[1], Vulnerable |-> a[2],
      Commit_Hash |-> h, CVEs |-> a[3]] :
        n \in 0..(MaxRows - 1),
        a \in {<<"Yes", "Yes", json_dumps(StringsToPy(<<CveIds[1]>>))>>,
               <<"Yes", "No", json_dumps(StringsToPy(<<CveIds[1]>>))>>,
               <<"No", "No", NoCell>>},
        h \in {1, 2, InvalidHash}}

\* The files drawn: the rows in ascending index, as sort_values leaves them.
TimelineFiles ==
    {tl \in SeqsUpTo(TimelineFileRows, MaxRows) :
        \A i \in 1..(Len(tl) - 1) : tl[i].Topological_Index <= tl[i + 1].Topological_Index}

GlobalConfigs ==
    {[start_at_checkout_commit_index |-> s, checkout_commit_index_list |-> l] :
        s \in {PyNone, PyInt(1)},
        l \in {PyNone, PyList(<<>>), PyList(<<PyInt(0)>>)}}

InitIterate ==
    /\ pc = "iterate"
    /\ repository \in {NoRepository, [NoRepository EXCEPT !.loaded = TRUE]}
    /\ cves = <<>>
    /\ commit_list = <<>> /\ index = 0 /\ deduplicated = <<>> /\ consecutive_commits = <<>>
    /\ timeline \in TimelineFiles
    /\ global_config \in GlobalConfigs
    /\ groups_iterated = 0 /\ checkouts = <<>> /\ changed_files = <<>>
    /\ CommonIdle /\ ParserIdle /\ TopoIdle /\ MapperIdle /\ CallIdle /\ CheckoutIdle /\ UnitIdle
    /\ error_log = 0

\* project.py 769-831: one group of the loop
IterateGroup ==
    /\ pc = "iterate"
    /\ LET tl == AllowedTimeline(timeline, global_config)
           groups == grouped_timeline(tl)
       IN  /\ groups_iterated < Len(groups)
           /\ LET key == groups[groups_iterated + 1]
                  to_checkout == commit_hash_to_checkout(tl, key)
                  checkout == checkout_entire_git_commit(repository, working_tree, to_checkout)
                  \* log.warning of line 794
                  defaulted == IF key[2] # "Yes" /\ is_next_commit(tl, key[1]) = {} THEN 1 ELSE 0
                  \* log.error of line 831, after that of line 544 when git failed
                  failed == IF checkout[1] THEN 0 ELSE IF repository.loaded THEN 2 ELSE 1
              IN  IF IsFilteredOut(key[1], global_config)
                  THEN UNCHANGED <<working_tree, checkouts, changed_files, error_log>>
                  ELSE /\ working_tree' = checkout[2]
                       /\ checkouts' = Append(checkouts,
                                [group |-> key, commit_hash_to_checkout |-> to_checkout,
                                 checkout_success |-> checkout[1]])
                       /\ changed_files' = IF checkout[1]
                                           THEN Append(changed_files, ChangedFiles(tl, key))
                                           ELSE changed_files
                       /\ error_log' = error_log + defaulted + failed
    /\ groups_iterated' = groups_iterated + 1
    /\ UNCHANGED <<pc, commonVars, parserVars, repoVars, topoVars, mapperVars, timelineVars,
                   callVars, unitVars, traversal, checkout_list, position, global_config>>

\* project.py 833: the loop is over
IterateEnd ==
    /\ pc = "iterate"
    /\ groups_iterated = Len(grouped_timeline(AllowedTimeline(timeline, global_config)))
    /\ working_tree' = hard_reset_git_head(repository, working_tree)
    /\ pc' = "done"
    /\ UNCHANGED <<commonVars, parserVars, error_log, repoVars, topoVars, mapperVars,
                   timelineVars, callVars, unitVars, iterateVars, traversal, checkout_list,
                   position>>

NextIterate == IterateGroup \/ IterateEnd

SpecIterate == InitIterate /\ [][NextIterate]_vars

-----------------------------------------------------------------------------
(* Claims about the diff parser (SpecDiff).                                 *)

\* The parser is about to read a hunk header inside a file section.
AtHunk ==
    /\ pc = "parse"
    /\ line_index <= Len(diff_result)
    /\ diff_result[line_index].kind = "hunk"
    /\ last_file_path # NoPath

\* The parser has just read a hunk header inside a file section.
AfterHunk ==
    /\ pc = "parse"
    /\ line_index > 1
    /\ diff_result[line_index - 1].kind = "hunk"
    /\ last_file_path # NoPath

RangeOk(r) == 1 <= r[1] /\ r[1] <= r[2]

AllRangesOk ==
    /\ \A i \in DOMAIN last_from_lines_list : RangeOk(last_from_lines_list[i])
    /\ \A i \in DOMAIN last_to_lines_list : RangeOk(last_to_lines_list[i])
    /\ \A k \in DOMAIN yielded :
        /\ \A i \in DOMAIN yielded[k][2] : RangeOk(yielded[k][2][i])
        /\ \A i \in DOMAIN yielded[k][3] : RangeOk(yielded[k][3][i])

\* C3: every range the parser holds or has yielded, on either side, satisfies
\* 1 <= begin <= end, and a hunk side whose begin is 0 adds no range to its
\* side's list.
C3_RangesWellFormed ==
    /\ []AllRangesOk
    /\ [][AtHunk =>
            LET h == diff_result[line_index] IN
            /\ (h.from_begin = 0 => last_from_lines_list' = last_from_lines_list)
            /\ (h.to_begin = 0 => last_to_lines_list' = last_to_lines_list)]_vars

\* A hunk "@@ -0,0 +b,n @@" of a file section was read: nothing on the from
\* side, one range on the to side.
C3_Witness ==
    /\ AfterHunk
    /\ diff_result[line_index - 1].from_begin = 0
    /\ diff_result[line_index - 1].to_begin > 0
    /\ last_from_lines_list = <<>>
    /\ Len(last_to_lines_list) = 1

\* C4 as written: a hunk side adds no range when its begin is 0 or its
\* declared length is 0, and "@@ -424,20 +420,0 @@" adds the from-range
\* [424,443] and no to-range.
C4_AsWritten ==
    [][AtHunk =>
        LET h == diff_result[line_index] IN
        /\ (h.from_begin = 0 \/ h.from_total = 0 => last_from_lines_list' = last_from_lines_list)
        /\ (h.to_begin = 0 \/ h.to_total = 0 => last_to_lines_list' = last_to_lines_list)
        /\ (h = DocHunk =>
              /\ last_from_lines_list' = Append(last_from_lines_list, <<424, 443>>)
              /\ last_to_lines_list' = last_to_lines_list)]_vars

\* C4 amended: a hunk side adds no range exactly when its begin is 0; a side
\* with begin > 0 and declared length 0 adds the one-line range [begin, begin];
\* "@@ -424,20 +420,0 @@" adds the from-range [424,443] and the to-range
\* [420,420].
C4_ZeroLengthSideKeepsItsLine ==
    [][AtHunk =>
        LET h == diff_result[line_index] IN
        /\ (last_from_lines_list' = last_from_lines_list) <=> (h.from_begin = 0)
        /\ (last_to_lines_list' = last_to_lines_list) <=> (h.to_begin = 0)
        /\ (h.from_begin > 0 /\ h.from_total = 0 =>
              last_from_lines_list' = Append(last_from_lines_list, <<h.from_begin, h.from_begin>>))
        /\ (h.to_begin > 0 /\ h.to_total = 0 =>
              last_to_lines_list' = Append(last_to_lines_list, <<h.to_begin, h.to_begin>>))
        /\ (h = DocHunk =>
              /\ last_from_lines_list' = Append(last_from_lines_list, <<424, 443>>)
              /\ last_to_lines_list' = Append(last_to_lines_list, <<420, 420>>))]_vars

\* "@@ -424,20 +420,0 @@" was read as the first hunk of a file section.
C4_Witness ==
    /\ AfterHunk
    /\ diff_result[line_index - 1] = DocHunk
    /\ last_from_lines_list = <<<<424, 443>>>>
    /\ last_to_lines_list = <<<<420, 420>>>>

-----------------------------------------------------------------------------
(* Claims about check_range_overlap (SpecOverlap).                          *)

WellFormed(r) == r[1] <= r[2]

\* The closed intervals [r1] and [r2] share an integer.
SharePoint(r1, r2) == \E x \in r1[1]..r1[2] : x \in r2[1]..r2[2]

Returned(b) == overlap_result = (IF b THEN "True" ELSE "False")

\* C5: check_range_overlap gives the same answer with its arguments swapped,
\* for well-formed ranges it answers whether the closed intervals share a
\* point, and it answers False for [10,20] against [5,9] and True against
\* [19,21] and against [20,20].
C5_OverlapSymmetricClosed ==
    /\ check_range_overlap(range_1, range_2) = check_range_overlap(range_2, range_1)
    /\ pc = "done" =>
        /\ Returned(check_range_overlap(range_2, range_1))
        /\ (WellFormed(range_1) /\ WellFormed(range_2) => Returned(SharePoint(range_1, range_2)))
        /\ (range_1 = <<10, 20>> /\ range_2 = <<5, 9>> => Returned(FALSE))
        /\ (range_1 = <<10, 20>> /\ range_2 = <<19, 21>> => Returned(TRUE))
        /\ (range_1 = <<10, 20>> /\ range_2 = <<20, 20>> => Returned(TRUE))

\* The call on [10,20] and [20,20] has returned True.
C5_Witness ==
    pc = "done" /\ range_1 = <<10, 20>> /\ range_2 = <<20, 20>> /\ overlap_result = "True"

-----------------------------------------------------------------------------
(* Claims about the JSON cells (SpecJson).                                  *)

\* C7 as written: with no default passed, reading back the cell written for
\* any list or dictionary, the empty ones included, gives the container.
C7_AsWritten ==
    pc = "done" /\ default = PyNone => deserialized = container

\* C7 amended: reading back the cell written for a non-empty list or
\* dictionary gives the container, key order included; an empty list or
\* dictionary is written as an empty cell and read back as the default the
\* caller passes (None when none is passed).
C7_RoundTripNonEmpty ==
    pc = "done" =>
        IF Len(container.v) > 0
        THEN container_str # NoCell /\ deserialized = container
        ELSE container_str = NoCell /\ deserialized = default

\* A list holding a code-unit dictionary was written and read back.
C7_Witness ==
    /\ pc = "done"
    /\ container.t = "list"
    /\ \E i \in DOMAIN container.v : container.v[i].t = "dict" /\ Len(container.v[i].v) = 2
    /\ deserialized = container


-----------------------------------------------------------------------------
(* Claims about the topological sort (SpecTopo).                            *)

AllValid(hl) == \A i \in DOMAIN hl : hl[i] \in Commits

IsPermutation(a, b) ==
    /\ Len(a) = Len(b)
    /\ \A x \in Range(a) \cup Range(b) :
        Cardinality({i \in DOMAIN a : a[i] = x}) = Cardinality({i \in DOMAIN b : b[i] = x})

AncestorsFirst(r, hl) ==
    \A i, j \in DOMAIN hl : IsAncestor(r, hl[i], hl[j]) => i < j

\* C6 as written: on a loaded repository the sort returns a list of zero or
\* one hash unchanged, and for two or more valid hashes it returns a
\* permutation of the list in which every commit comes after each of its
\* ancestors in the list.
C6_AsWritten ==
    (pc = "done" /\ repository.loaded) =>
        /\ Len(hash_list) <= 1 => sorted_hash_list = hash_list
        /\ (Len(hash_list) >= 2 /\ AllValid(hash_list)) =>
                /\ IsPermutation(sorted_hash_list, hash_list)
                /\ AncestorsFirst(repository, sorted_hash_list)

-----------------------------------------------------------------------------
(* Claims about the two scripts (Spec).                                     *)

CommitListBuilt == pc \in {"main_pass", "correction", "done", "assert_failed", "raised"}

\* The distinct (vulnerable commit, neutral commit) pairs of the table.
CommitPairs ==
    {<<affected_files[i].Vulnerable_Commit_Hash, affected_files[i].Neutral_Commit_Hash>> :
        i \in DOMAIN affected_files}

\* C1: once the checkpoints are built from a table holding n distinct
\* (vulnerable commit, neutral commit) pairs there are exactly 2n+1 of them,
\* checkpoint 0 is the project's first commit and is not vulnerable, of every
\* two adjacent checkpoints exactly one is vulnerable, and the main pass never
\* fails its alternation assertion.
C1_CheckpointsAlternate ==
    CommitListBuilt =>
        /\ Len(commit_list) = 2 * Cardinality(CommitPairs) + 1
        /\ commit_list[1].CommitHash = find_first_git_commit_hash(repository)
        /\ commit_list[1].TopologicalIndex = 0
        /\ ~commit_list[1].Vulnerable
        /\ \A k \in 1..(Len(commit_list) - 1) :
                commit_list[k].Vulnerable # commit_list[k + 1].Vulnerable
        /\ pc # "assert_failed"

\* A chain of three fixes, each changing two files: 7 checkpoints.
C1_Witness ==
    /\ pc = "done"
    /\ repository.parents = <<<<>>, <<1>>, <<2>>, <<3>>>>
    /\ neutral_commit_list = <<2, 3, 4>>
    /\ Len(affected_files) = 6
    /\ Len(commit_list) = 7

\* Rows i and i+1 of the table the correction pass starts from share a commit
\* hash, the first neutral and the second vulnerable, with an id in common.
ConsecutivePair(i) ==
    LET n == deduplicated[i]
        v == deduplicated[i + 1]
    IN  /\ n.Commit_Hash = v.Commit_Hash
        /\ n.Vulnerable = "No" /\ v.Vulnerable = "Yes"
        /\ n.CVEs # NoCell /\ v.CVEs # NoCell
        /\ Range(json_loads(n.CVEs).v) \cap Range(json_loads(v.CVEs).v) # {}

FilesAt(tl, ti) == {tl[i].File_Path : i \in {j \in DOMAIN tl : tl[j].Topological_Index = ti}}

\* C2: when the correction pass is over, for every such pair of adjacent rows
\* every file with a row at the neutral row's index and a row at the
\* vulnerable row's index has no row left at the neutral index, and every row
\* at the vulnerable index is still in the table.
C2_CorrectionDropsNeutralRows ==
    pc = "done" =>
        \A i \in 1..(Len(deduplicated) - 1) :
            ConsecutivePair(i) =>
                LET ni == deduplicated[i].Topological_Index
                    vi == deduplicated[i + 1].Topological_Index
                IN  /\ FilesAt(deduplicated, ni) \cap FilesAt(deduplicated, vi)
                            \cap FilesAt(timeline, ni) = {}
                    /\ \A k \in DOMAIN deduplicated :
                            deduplicated[k].Topological_Index = vi =>
                                \E m \in DOMAIN timeline : timeline[m] = deduplicated[k]

\* A pair was corrected: a file lost its neutral-index row, while another
\* file at that index, absent from the vulnerable index, kept its row.
C2_Witness ==
    /\ pc = "done"
    /\ \E i \in 1..(Len(deduplicated) - 1) :
        /\ ConsecutivePair(i)
        /\ LET ni == deduplicated[i].Topological_Index
               vi == deduplicated[i + 1].Topological_Index
           IN  /\ FilesAt(deduplicated, ni) \cap FilesAt(deduplicated, vi) # {}
               /\ FilesAt(timeline, ni) # {}
               /\ Len(timeline) < Len(deduplicated)

KeysUnique(tl) == \A i, j \in DOMAIN tl : SameKey(tl[i], tl[j]) => i = j

\* C8: from the duplicate drop on, and so in the table written at the end, no
\* two rows share file path, topological index and affected flag.
C8_TimelineKeysUnique ==
    pc \in {"correction", "done"} => KeysUnique(timeline)

\* The main pass had produced rows with the same key: the labels of the rows
\* the duplicate drop kept have a gap.
C8_Witness ==
    /\ pc = "done"
    /\ deduplicated # <<>>
    /\ \E a, b \in DOMAIN deduplicated : deduplicated[b].Label > deduplicated[a].Label + (b - a)

\* C9 as written: in every row of the affected-file table the vulnerable
\* commit is one of the parents of the neutral commit.
C9_AsWritten ==
    \A i \in DOMAIN affected_files :
        affected_files[i].Vulnerable_Commit_Hash
            \in Range(repository.parents[affected_files[i].Neutral_Commit_Hash])

\* C10 as written: after the first pass, for every neutral commit with k
\* parents and every source file that differs between it and its first parent
\* the table has exactly k rows for the file at the commit's topological
\* index, one per parent, each with Parent Count k, neutral commit, neutral
\* changed lines and ids the same in all of them.
C10_AsWritten ==
    pc # "find_affected_files" /\ pc # "first_pass" =>
        \A ti \in DOMAIN neutral_commit_list :
            LET n == neutral_commit_list[ti]
                ps == repository.parents[n]
                k == Len(ps)
            IN  \A f \in FileSet :
                    (k > 0 /\ repository.tree[n][f] # repository.tree[ps[1]][f]) =>
                        LET rows == SelectIdx(affected_files,
                                        LAMBDA i : /\ affected_files[i].File_Path = f
                                                   /\ affected_files[i].Topological_Index = ti - 1, 1)
                        IN  /\ Len(rows) = k
                            /\ {rows[i].Vulnerable_Commit_Hash : i \in DOMAIN rows} = Range(ps)
                            /\ \A i \in DOMAIN rows :
                                /\ rows[i].Parent_Count = k
                                /\ rows[i].Neutral_Commit_Hash = n
                                /\ rows[i].Neutral_Changed_Lines = rows[1].Neutral_Changed_Lines
                                /\ rows[i].CVEs = rows[1].CVEs

-----------------------------------------------------------------------------
(* Claims about the methods that run git (SpecCall).                        *)

CommandFailed == git_fails \/ GitRejects(operation, repository, argument)

IsEmptyValue(value) ==
    \/ value.t = "None"
    \/ value.t = "list" /\ value.v = <<>>
    \/ value.t = "bool" /\ value.v = <<FALSE>>

\* C11: no call of the ten methods ends in an exception, and a call on a
\* loaded repository whose git command failed has returned an empty list,
\* None or False and has written one log entry.
C11_FailureIsLoggedAndEmpty ==
    /\ pc # "raised"
    /\ (pc = "returned" /\ repository.loaded /\ CommandFailed) =>
            IsEmptyValue(op_result) /\ error_log = 1

\* The checkout of an unknown hash returned False and was logged.
C11_Witness ==
    /\ pc = "returned" /\ repository.loaded /\ ~git_fails
    /\ operation = "checkout_entire_git_commit" /\ argument = InvalidHash
    /\ op_result = BoolValue(FALSE) /\ error_log = 1

-----------------------------------------------------------------------------
(* Claims about the traversals that check commits out (SpecCheckout).       *)

\* C12 as written: in every execution of a traversal on a loaded repository,
\* whenever the working tree holds a checked-out commit it is eventually hard
\* reset.
C12_AsWritten ==
    (repository.loaded /\ working_tree # <<>>) ~> (working_tree = <<>>)

-----------------------------------------------------------------------------
(* Claims about the main pass of create_file_timeline.py (Spec).            *)

\* The paths the diff of the checkpoint pair at index i yields.
ChangedFilesOfPair(i) ==
    LET files == find_changed_source_files_and_lines_between_git_commits(repository,
                    commit_list[i + 1].CommitHash, commit_list[i + 2].CommitHash)
    IN  {files[k][1] : k \in DOMAIN files}

\* A from-side row: the first of the rows a pair adds for a file.
IsFromSideRow(row) == row.Affected = row.Vulnerable

HasFromSideRow(i, f) ==
    \E k \in DOMAIN timeline : /\ IsFromSideRow(timeline[k])
                               /\ timeline[k].Topological_Index = i
                               /\ timeline[k].File_Path = f

\* The pairs the main pass has gone through.
PairsDone == IF pc = "main_pass" THEN 0..(index - 1) ELSE {}

\* The table lists f for the vulnerable commit `to` of pair i, in a row whose
\* neutral commit is a checkpoint at or before the pair's from checkpoint.
ListedFromEarlierNeutral(i, f) ==
    \E a \in DOMAIN affected_files :
        /\ affected_files[a].File_Path = f
        /\ affected_files[a].Vulnerable_Commit_Hash = commit_list[i + 2].CommitHash
        /\ \E k \in 1..(i + 1) :
            /\ ~commit_list[k].Vulnerable
            /\ commit_list[k].CommitHash = affected_files[a].Neutral_Commit_Hash

ListedForCommit(i, f) ==
    \E a \in DOMAIN affected_files :
        /\ affected_files[a].File_Path = f
        /\ affected_files[a].Vulnerable_Commit_Hash = commit_list[i + 2].CommitHash

C14_AsWritten ==
    pc = "main_pass" =>
        \A a, b \in DOMAIN timeline :
            ~ /\ timeline[a].File_Path = timeline[b].File_Path
              /\ timeline[a].Affected = "No" /\ timeline[a].Vulnerable = "No"
              /\ timeline[b].Vulnerable = "Yes"
              /\ timeline[b].Topological_Index = timeline[a].Topological_Index + 1

\* The main pass skips the file f of pair i (create_file_timeline.py 86-93).
SkippedInPair(i, f) == commit_list[i + 2].Vulnerable /\ ListedForCommit(i, f)

\* The files the diff of pair i yields and the main pass does not skip, in
\* the order of the diff.
KeptFilesOfPair(i) ==
    LET files == find_changed_source_files_and_lines_between_git_commits(repository,
                    commit_list[i + 1].CommitHash, commit_list[i + 2].CommitHash)
    IN  SelectIdx(files, LAMBDA k : ~SkippedInPair(i, files[k][1]), 1)

\* The rows pair i has added to the timeline, in order: its from-side rows
\* (at the index of from) and its to-side rows (affected and not vulnerable,
\* at the index of to).
RowsOfPair(i) ==
    SelectIdx(timeline,
        LAMBDA k : \/ /\ timeline[k].Topological_Index = commit_list[i + 1].TopologicalIndex
                      /\ IsFromSideRow(timeline[k])
                   \/ /\ timeline[k].Topological_Index = commit_list[i + 2].TopologicalIndex
                      /\ timeline[k].Affected = "Yes" /\ timeline[k].Vulnerable = "No",
        1)

IsRow(row, file, affected, vulnerable, commit) ==
    /\ row.File_Path = file[1]
    /\ row.Affected = affected
    /\ row.Vulnerable = vulnerable
    /\ row.Topological_Index = commit.TopologicalIndex
    /\ row.Commit_Hash = commit.CommitHash

-----------------------------------------------------------------------------
(* Claims about the correction pass of create_file_timeline.py (Spec).      *)

\* The vulnerability ids of a CVEs cell of the timeline.
CveIdsOfCell(cell) == IF cell = NoCell THEN {} ELSE Range(PyToSeq(json_loads(cell)))

\* The rows i and i + 1 of tl are a flip: the same commit, first as a neutral
\* and then as a vulnerable checkpoint.
IsFlip(tl, i) ==
    /\ tl[i].Commit_Hash = tl[i + 1].Commit_Hash
    /\ tl[i].Vulnerable # tl[i + 1].Vulnerable

FlipIsDisjointIn(tl, i) == CveIdsOfCell(tl[i].CVEs) \cap CveIdsOfCell(tl[i + 1].CVEs) = {}

\* The flip the correction pass looks at next has disjoint vulnerability-id
\* lists.
FlipIsDisjoint == FlipIsDisjointIn(consecutive_commits, 1)

\* Every row of the timeline is a row of `before`, unmodified and in the
\* same order.
OnlyRowsRemoved(before, after) ==
    after = SelectIdx(before, LAMBDA i : before[i] \in Range(after), 1)

\* One iteration of the correction pass has run.
CorrectionIteration == pc = "correction" /\ pc' = "correction"

\* C16: a step of the correction pass for a flip whose vulnerability-id lists
\* are disjoint leaves the timeline unchanged, and across the whole pass the
\* timeline only loses rows: none is added or modified, and no row labelled
\* vulnerable is removed.
C16_CorrectionOnlyRemovesNeutralRows ==
    /\ [][(CorrectionIteration /\ FlipIsDisjoint) => timeline' = timeline]_vars
    /\ [](pc \in {"correction", "done"} =>
            /\ OnlyRowsRemoved(deduplicated, timeline)
            /\ \A i \in DOMAIN deduplicated :
                deduplicated[i].Vulnerable = "Yes" => deduplicated[i] \in Range(timeline))

\* The pass is over: it has met a flip with disjoint lists whose two indices
\* share a file, and a flip with intersecting lists, and has removed rows.
C16_Witness ==
    /\ pc = "done"
    /\ Len(timeline) < Len(deduplicated)
    /\ \E i \in 1..(Len(deduplicated) - 1) :
        /\ IsFlip(deduplicated, i)
        /\ FlipIsDisjointIn(deduplicated, i)
        /\ \E a, b \in DOMAIN timeline :
            /\ timeline[a].Topological_Index = deduplicated[i].Topological_Index
            /\ timeline[b].Topological_Index = deduplicated[i + 1].Topological_Index
            /\ timeline[a].File_Path = timeline[b].File_Path

-----------------------------------------------------------------------------
(* Claims about the checkpoint sequence of create_file_timeline.py (Spec).  *)

\* The (vulnerable, neutral) pair of row i of the affected-file table.
PairOfRow(i) ==
    <<affected_files[i].Vulnerable_Commit_Hash, affected_files[i].Neutral_Commit_Hash>>

\* The first row of the affected-file table that holds the pair.
FirstOccurrence(pair) ==
    CHOOSE i \in DOMAIN affected_files :
        /\ PairOfRow(i) = pair
        /\ \A j \in 1..(i - 1) : PairOfRow(j) # pair

\* The k-th pair of the checkpoint sequence (k >= 1).
PairOfCheckpoints(k) == <<commit_list[2 * k].CommitHash, commit_list[2 * k + 1].CommitHash>>

PairCount == (Len(commit_list) - 1) \div 2

\* C17: each checkpoint's topological index is its 0-based position in the
\* checkpoint sequence (the first commit has 0, the k-th pair's vulnerable
\* checkpoint 2k-1 and its neutral checkpoint 2k), and the pairs come in the
\* order in which each distinct (vulnerable, neutral) pair first occurs in
\* the affected-file table.
C17_IndexIsPositionInTableOrder ==
    CommitListBuilt =>
        /\ \A p \in DOMAIN commit_list : commit_list[p].TopologicalIndex = p - 1
        /\ \A k \in 1..PairCount :
            /\ commit_list[2 * k].Vulnerable /\ commit_list[2 * k].TopologicalIndex = 2 * k - 1
            /\ ~commit_list[2 * k + 1].Vulnerable
            /\ commit_list[2 * k + 1].TopologicalIndex = 2 * k
            /\ PairOfCheckpoints(k) \in CommitPairs
        /\ \A k \in 1..(PairCount - 1) :
            FirstOccurrence(PairOfCheckpoints(k)) < FirstOccurrence(PairOfCheckpoints(k + 1))

\* Three pairs whose order in the table is not a topological order of the
\* commit graph: a checkpoint comes before one of its proper ancestors.
C17_Witness ==
    /\ CommitListBuilt
    /\ PairCount = 3
    /\ \E a, b \in DOMAIN commit_list :
        /\ a < b
        /\ IsAncestor(repository, commit_list[b].CommitHash, commit_list[a].CommitHash)

-----------------------------------------------------------------------------
(* Further claims about the diff parser (SpecDiff).                         *)

\* The length a hunk side declares: 1 when the header omits it.
DeclaredLength(total) == IF total = NoTotal THEN 1 ELSE total

\* What one side of a hunk adds to its list.
ListAfterSide(line_list, begin, total) ==
    IF begin > 0
    THEN Append(line_list, <<begin, begin + Max(DeclaredLength(total) - 1, 0)>>)
    ELSE line_list

\* C18: each side of a hunk of a file section, on its own, adds the range
\* [begin, begin + max(length - 1, 0)] to its list when its begin is above 0,
\* the length being 1 when the header omits it, and nothing otherwise: what
\* the from list gets depends on the from side alone, what the to list gets
\* on the to side alone.
C18_EachSideOnItsOwn ==
    [][AtHunk =>
        LET h == diff_result[line_index] IN
        /\ last_from_lines_list' = ListAfterSide(last_from_lines_list, h.from_begin, h.from_total)
        /\ last_to_lines_list' = ListAfterSide(last_to_lines_list, h.to_begin, h.to_total)]_vars

\* Two hunks of one file section were read, the first with a from side that
\* omits its length and a to side of MaxLine + 1 lines, the second with an
\* empty from side.
C18_Witness ==
    /\ AfterHunk
    /\ line_index = 4
    /\ diff_result[2] = HunkLine(MaxLine, NoTotal, MaxLine, MaxLine + 1)
    /\ diff_result[3] = HunkLine(0, 0, MaxLine, 0)
    /\ last_from_lines_list = <<<<MaxLine, MaxLine>>>>
    /\ last_to_lines_list = <<<<MaxLine, 2 * MaxLine>>, <<MaxLine, MaxLine>>>>

\* A line that starts with "+++ ".
IsPlusLine(line) == line.kind \in {"file", "plus3"}

\* The ranges one side gets from the hunks between position j and the next
\* "+++ " line or the end of the diff, added to acc.
RECURSIVE SectionRanges(_, _, _)
SectionRanges(j, side, acc) ==
    IF j > Len(diff_result) \/ IsPlusLine(diff_result[j]) THEN acc
    ELSE LET line == diff_result[j]
         IN  SectionRanges(j + 1, side,
                IF line.kind # "hunk" THEN acc
                ELSE IF side = "from" THEN ListAfterSide(acc, line.from_begin, line.from_total)
                ELSE ListAfterSide(acc, line.to_begin, line.to_total))

\* A file section whose new-file path is not /dev/null starts at position i.
StartsFileSection(i) == diff_result[i].kind = "file" /\ diff_result[i].path # "dev/null"

\* One triple per such file section, in diff order, with the ranges of the
\* section's own hunks.
TriplesOfFileSections ==
    LET triple == [i \in DOMAIN diff_result |->
                    <<diff_result[i].path, SectionRanges(i + 1, "from", <<>>),
                      SectionRanges(i + 1, "to", <<>>)>>]
    IN  SelectIdx(triple, LAMBDA i : StartsFileSection(i), 1)

\* C19 as written: once the parser has stopped, what it has yielded is exactly
\* one triple per file section whose new-file path is not /dev/null, in diff
\* order, each with the ranges of the hunks between its "+++ " line and the
\* next one or the end of the diff; a /dev/null section yields nothing and
\* its hunks go to no file.
C19_AsWritten ==
    pc \in {"done", "raised"} => yielded = TriplesOfFileSections

\* The parser is about to read, inside a file section, a line that starts
\* with "@@" and does not match the hunk pattern.
AtBadHunk ==
    /\ pc = "parse"
    /\ line_index <= Len(diff_result)
    /\ diff_result[line_index].kind = "badhunk"
    /\ last_file_path # NoPath

\* C20: a hunk header of a file section that does not match the hunk pattern
\* adds no range to either side and writes one error to the log, and the file
\* section goes on: the parser keeps the file and the ranges it has, so that
\* at the end of the diff every file section has yielded its triple with the
\* ranges of all its well-formed hunks, those after the bad header included.
C20_BadHunkIsLoggedAndSkipped ==
    /\ [][AtBadHunk =>
            /\ last_from_lines_list' = last_from_lines_list
            /\ last_to_lines_list' = last_to_lines_list
            /\ last_file_path' = last_file_path
            /\ yielded' = yielded
            /\ error_log' = error_log + 1
            /\ pc' = "parse"]_vars
    /\ [](pc = "done" => yielded = TriplesOfFileSections)

\* A file section with a bad hunk header followed by a well-formed one was
\* read to the end: one error logged, the triple yielded with the ranges of
\* the later hunk.
C20_Witness ==
    /\ pc = "done"
    /\ diff_result = <<FileLine("a.c"), DiffLine("badhunk", NoPath, 0, 0, 0, 0),
                       HunkLine(MaxLine, NoTotal, MaxLine, 0)>>
    /\ error_log = 1
    /\ yielded = <<<<"a.c", <<<<MaxLine, MaxLine>>>>, <<<<MaxLine, MaxLine>>>>>>>>

-----------------------------------------------------------------------------
(* Further claims about check_range_overlap (SpecOverlap).                  *)

\* A range whose begin is above its end.
Malformed(r) == r[1] > r[2]

\* C21: check_range_overlap returns False whenever either of its arguments is
\* a malformed range (begin > end), whatever the other argument is, and the
\* call returns rather than raises.
C21_MalformedRangeGivesFalse ==
    /\ pc \in {"call", "done"}
    /\ (pc = "done" /\ (Malformed(range_1) \/ Malformed(range_2))) => overlap_result = "False"

\* The call has returned False for a well-formed first range and a malformed
\* second one whose end points, compared as they are, would pass the test.
C21_Witness ==
    /\ pc = "done"
    /\ range_1 = <<0, 9>> /\ range_2 = <<5, 0>>
    /\ range_1[1] <= range_2[2] /\ range_2[1] <= range_1[2]
    /\ overlap_result = "False"

-----------------------------------------------------------------------------
(* Further claims about the first pass of find_affected_files.py (Spec).    *)

\* The triple of the diff between commits a and b that a row of the table
\* would carry.
RowCarriesDiffOf(row, a, b) ==
    LET files == find_changed_source_files_and_lines_between_git_commits(repository, a, b)
    IN  \E k \in DOMAIN files :
            /\ files[k][1] = row.File_Path
            /\ serialize_json_container(RangesToPy(files[k][2])) = row.Vulnerable_Changed_Lines
            /\ serialize_json_container(RangesToPy(files[k][3])) = row.Neutral_Changed_Lines

\* The paths the diff between commits a and b yields.
PathsChangedBetween(a, b) ==
    LET files == find_changed_source_files_and_lines_between_git_commits(repository, a, b)
    IN  {files[k][1] : k \in DOMAIN files}

\* C23 as written: for a neutral commit with several parents, the rows of the
\* table for parent p are those of the source files changed between p and the
\* neutral commit, and each carries as vulnerable and neutral changed lines
\* the from and to ranges of the diff between p and the neutral commit.
C23_AsWritten ==
    \A i \in DOMAIN affected_files :
        LET row == affected_files[i]
            p == row.Vulnerable_Commit_Hash
            n == row.Neutral_Commit_Hash
        IN  Len(repository.parents[n]) > 1 =>
                /\ RowCarriesDiffOf(row, p, n)
                /\ PathsChangedBetween(p, n) =
                        {affected_files[j].File_Path : j \in {x \in DOMAIN affected_files :
                            /\ affected_files[x].Vulnerable_Commit_Hash = p
                            /\ affected_files[x].Neutral_Commit_Hash = n}}

-----------------------------------------------------------------------------
(* Further claims about the main pass of create_file_timeline.py (Spec).    *)

\* The files of pair i that are not skipped and have no entry in the table
\* for the pair's from commit as vulnerable commit, as positions in
\* KeptFilesOfPair(i).
FilesWithoutEntry(i) ==
    LET kept == KeptFilesOfPair(i)
    IN  {n \in DOMAIN kept :
            ~\E a \in DOMAIN affected_files :
                /\ affected_files[a].File_Path = kept[n][1]
                /\ affected_files[a].Vulnerable_Commit_Hash = commit_list[i + 1].CommitHash}

HasNoCodeUnits(row) == row.Affected_Functions = NoCell /\ row.Affected_Classes = NoCell

\* The warnings the pairs with a vulnerable from, up to pair i, call for.
RECURSIVE WarningsDue(_)
WarningsDue(i) ==
    IF i < 0 THEN 0
    ELSE WarningsDue(i - 1)
            + (IF commit_list[i + 1].Vulnerable THEN Cardinality(FilesWithoutEntry(i)) ELSE 0)

CheckpointOf(row) == commit_list[row.Topological_Index + 1]

\* C29: in every timeline row Vulnerable = Yes implies Affected = Yes; a row
\* with Affected = No has Vulnerable = No and carries neither vulnerability
\* ids nor function or class lists; and every row has the commit hash and the
\* Vulnerable flag of the checkpoint at its topological index, so that rows
\* sharing an index share both.
C29_RowLabelsConsistent ==
    \A k \in DOMAIN timeline :
        LET row == timeline[k] IN
        /\ row.Vulnerable = "Yes" => row.Affected = "Yes"
        /\ row.Affected = "No" =>
                row.Vulnerable = "No" /\ row.CVEs = NoCell /\ HasNoCodeUnits(row)
        /\ row.Topological_Index \in 0..(Len(commit_list) - 1)
        /\ row.Commit_Hash = CheckpointOf(row).CommitHash
        /\ (row.Vulnerable = "Yes") = CheckpointOf(row).Vulnerable
        /\ \A j \in DOMAIN timeline :
                timeline[j].Topological_Index = row.Topological_Index =>
                    /\ timeline[j].Commit_Hash = row.Commit_Hash
                    /\ timeline[j].Vulnerable = row.Vulnerable

\* The finished timeline has, at one neutral checkpoint, both a to-side row
\* (Affected Yes) and a from-side row (Affected No), and a vulnerable row with
\* function cells at another.
C29_Witness ==
    /\ pc = "done"
    /\ \E a, b, c \in DOMAIN timeline :
        /\ timeline[a].Topological_Index = timeline[b].Topological_Index
        /\ timeline[a].Affected = "Yes" /\ timeline[b].Affected = "No"
        /\ timeline[c].Vulnerable = "Yes" /\ ~HasNoCodeUnits(timeline[c])

-----------------------------------------------------------------------------
(* Further claims about sort_git_commit_hashes_topologically (SpecTopo).    *)

-----------------------------------------------------------------------------
(* Claims about the assertions of create_file_timeline.py (SpecAddedFile).  *)

\* Row i of tl and the row after it are flagged by the flip detection.
StartsFlaggedPair(tl, i) ==
    /\ i < Len(tl)
    /\ tl[i].Commit_Hash = tl[i + 1].Commit_Hash
    /\ tl[i].Vulnerable # tl[i + 1].Vulnerable

\* The rows the correction pass flags are disjoint pairs of adjacent rows, a
\* neutral row and then a vulnerable row of the same commit.
FlaggedRowsArePairs(tl) ==
    \A i \in DOMAIN tl :
        StartsFlaggedPair(tl, i) =>
            /\ tl[i].Vulnerable = "No" /\ tl[i + 1].Vulnerable = "Yes"
            /\ ~StartsFlaggedPair(tl, i + 1)

\* The pairwise iteration takes the flagged rows two by two, each pair made
\* of adjacent rows of the table.
IteratedInPairs(tl, flagged) ==
    /\ Len(flagged) % 2 = 0
    /\ \A j \in 1..(Len(flagged) \div 2) :
        /\ flagged[2 * j - 1].Commit_Hash = flagged[2 * j].Commit_Hash
        /\ \E i \in DOMAIN tl :
            /\ StartsFlaggedPair(tl, i)
            /\ tl[i] = flagged[2 * j - 1] /\ tl[i + 1] = flagged[2 * j]

\* C27 as written: no assertion of the timeline script fails, the rows the
\* correction pass flags form disjoint consecutive pairs (a neutral row, then
\* a vulnerable row of the same commit), and the run is never aborted.
C27_AsWritten ==
    /\ pc \notin {"assert_failed", "raised"}
    /\ pc \in {"correction", "done"} => FlaggedRowsArePairs(deduplicated)
    /\ pc = "correction" => IteratedInPairs(deduplicated, ConsecutiveCommitsOf(deduplicated))

\* The assertions alone: neither assert fails and the flagged rows are pairs.
AssertionsOfTimelineHold ==
    /\ pc # "assert_failed"
    /\ pc \in {"correction", "done"} => FlaggedRowsArePairs(deduplicated)
    /\ pc = "correction" => IteratedInPairs(deduplicated, ConsecutiveCommitsOf(deduplicated))

-----------------------------------------------------------------------------
(* Claims about the second pass of find_affected_files.py (SpecSecondPass). *)

\* The rows of the groups the second pass has gone through.
RowsOfGroupsDone ==
    IF pc \notin {"second_pass", "done"} THEN {}
    ELSE {i \in DOMAIN affected_files :
            \E k \in 1..groups_done :
                grouped_files(affected_files)[k] = GroupKey(affected_files[i])}

\* The code-unit dicts a cell holds.
UnitsOfCell(cell) == deserialize_json_container(cell, PyList(<<>>)).v

\* unit['Vulnerable'] of a recorded code unit.
StatusOfUnit(unit) ==
    unit.v[CHOOSE i \in DOMAIN unit.v : unit.v[i][1] = "Vulnerable"][2].v

\* The units a row records for its vulnerable commit, and for its neutral one.
VulnerableSideUnits(i) ==
    UnitsOfCell(code_units[i].Vulnerable_File_Functions)
        \o UnitsOfCell(code_units[i].Vulnerable_File_Classes)
NeutralSideUnits(i) ==
    UnitsOfCell(code_units[i].Neutral_File_Functions)
        \o UnitsOfCell(code_units[i].Neutral_File_Classes)

\* Two well-formed line ranges have a line in common.
RangesMeet(a, b) == a[1] <= b[2] /\ b[1] <= a[2]

\* The unit's lines meet one of the row's vulnerable-side changed-line ranges.
MeetsVulnerableChange(i, unit) ==
    LET changed == ChangedLinesOf(affected_files[i].Vulnerable_Changed_Lines)
    IN  \E k \in DOMAIN changed : RangesMeet(LinesOfUnit(unit), changed[k])

\* C22: in the second pass a code unit extracted at the vulnerable commit is
\* marked 'Yes' exactly when its line range overlaps at least one of the
\* row's vulnerable-side changed-line ranges, and every code unit extracted at
\* the neutral commit is marked 'No'.
C22_UnitsMarkedByVulnerableSideOverlap ==
    \A i \in RowsOfGroupsDone :
        /\ \A k \in DOMAIN VulnerableSideUnits(i) :
                StatusOfUnit(VulnerableSideUnits(i)[k]) = "Yes"
                    <=> MeetsVulnerableChange(i, VulnerableSideUnits(i)[k])
        /\ \A k \in DOMAIN NeutralSideUnits(i) :
                StatusOfUnit(NeutralSideUnits(i)[k]) = "No"

\* A row whose vulnerable side has a unit marked 'Yes' and a unit marked 'No'
\* and whose neutral side has a unit that overlaps the neutral-side changes.
C22_Witness ==
    \E i \in RowsOfGroupsDone :
        /\ \E k \in DOMAIN VulnerableSideUnits(i) :
                StatusOfUnit(VulnerableSideUnits(i)[k]) = "Yes"
        /\ \E k \in DOMAIN VulnerableSideUnits(i) :
                StatusOfUnit(VulnerableSideUnits(i)[k]) = "No"
        /\ \E k \in DOMAIN NeutralSideUnits(i) :
                \E n \in DOMAIN ChangedLinesOf(affected_files[i].Neutral_Changed_Lines) :
                    RangesMeet(LinesOfUnit(NeutralSideUnits(i)[k]),
                               ChangedLinesOf(affected_files[i].Neutral_Changed_Lines)[n])

\* A recorded code unit without its 'Vulnerable' key, the last one added.
AsExtracted(units) == [k \in DOMAIN units |-> PyDict(SubSeq(units[k].v, 1, Len(units[k].v) - 1))]

\* The content of the file in the commit itself.
ContentIn(commit_hash, file_path) ==
    IF file_path \in FileSet THEN repository.tree[commit_hash][file_path] ELSE Absent

\* The cells hold the units of the file as it is in the commit: those of its
\* content there, none when the commit does not have the file.
RecordedFromCommit(function_cell, class_cell, commit_hash, file_path) ==
    LET v == ContentIn(commit_hash, file_path)
    IN  /\ AsExtracted(UnitsOfCell(function_cell))
                = IF v = Absent THEN <<>> ELSE FunctionsOfContent(v)
        /\ AsExtracted(UnitsOfCell(class_cell))
                = IF v = Absent THEN <<>> ELSE ClassesOfContent(v)

\* C28 as written: the code units the second pass records for a side of a row
\* are extracted from the file's content in that side's commit; content an
\* earlier checkout left in the working tree is never parsed as that commit's
\* version.
C28_AsWritten ==
    \A i \in RowsOfGroupsDone :
        /\ RecordedFromCommit(code_units[i].Vulnerable_File_Functions,
                              code_units[i].Vulnerable_File_Classes,
                              affected_files[i].Vulnerable_Commit_Hash,
                              affected_files[i].File_Path)
        /\ RecordedFromCommit(code_units[i].Neutral_File_Functions,
                              code_units[i].Neutral_File_Classes,
                              affected_files[i].Neutral_Commit_Hash,
                              affected_files[i].File_Path)

-----------------------------------------------------------------------------
(* Claims about the order of checkouts and resets (SpecCheckout).           *)

\* C24 as written: in the second pass, after the two checkouts of a group a
\* hard reset is issued before the first checkout of the next group, so that
\* every group after the first starts on the files of HEAD.
C24_AsWritten ==
    [][(/\ traversal = "second_pass"
        /\ repository.loaded
        /\ position >= 1
        /\ position' = position + 1) => working_tree = <<>>]_vars

-----------------------------------------------------------------------------
(* Claims about the iteration over a timeline file (SpecIterate).           *)

\* The rows of the timeline file whose index is one or two above n.
RowsJustAfter(n) ==
    {i \in DOMAIN timeline : timeline[i].Topological_Index \in {n + 1, n + 2}}

\* The commit the claim names for a group: its own when its rows are
\* affected, otherwise that of the first row one or two indices later, and
\* its own when there is no such row.
CommitNamedFor(key) ==
    IF key[2] = "Yes" \/ RowsJustAfter(key[1]) = {} THEN key[4]
    ELSE timeline[CHOOSE i \in RowsJustAfter(key[1]) :
                        \A j \in RowsJustAfter(key[1]) : i <= j].Commit_Hash

\* The checkouts that succeeded, in the order made.
SucceededCheckouts == SelectIdx(checkouts, LAMBDA k : checkouts[k].checkout_success, 1)

\* The tuple yielded is that of the group.
IsTupleOf(tuple, key) ==
    /\ tuple.TopologicalIndex = key[1]
    /\ tuple.Affected = (key[2] = "Yes")
    /\ tuple.Vulnerable = (key[3] = "Yes")
    /\ tuple.CommitHash = key[4]

\* The groups the loop does not pass over.
GroupsToCheckOut ==
    LET groups == grouped_timeline(AllowedTimeline(timeline, global_config))
    IN  {groups[k] : k \in {n \in DOMAIN groups : ~IsFilteredOut(groups[n][1], global_config)}}

\* C30: the commit checked out for a group of affected rows is the group's
\* own; for a group of not-affected rows at index i it is the commit of the
\* first timeline row whose index is i + 1 or i + 2, and the group's own only
\* when there is no such row.  The groups yielded are those whose checkout
\* succeeded, and a failed checkout does not stop the iteration: every group
\* has had its checkout when the iteration is over.
C30_CheckoutOfEachGroup ==
    /\ \A k \in DOMAIN checkouts :
            checkouts[k].commit_hash_to_checkout = CommitNamedFor(checkouts[k].group)
    /\ Len(changed_files) = Len(SucceededCheckouts)
    /\ \A k \in DOMAIN changed_files : IsTupleOf(changed_files[k], SucceededCheckouts[k].group)
    /\ pc = "done" => {checkouts[k].group : k \in DOMAIN checkouts} = GroupsToCheckOut

\* The iteration is over; a checkout failed and a later group was yielded, a
\* group of not-affected rows had the commit of a later row checked out and
\* another one its own.
C30_Witness ==
    /\ pc = "done"
    /\ \E k, n \in DOMAIN checkouts :
            k < n /\ ~checkouts[k].checkout_success /\ checkouts[n].checkout_success
    /\ \E k \in DOMAIN checkouts :
            /\ checkouts[k].group[2] = "No"
            /\ checkouts[k].checkout_success
            /\ checkouts[k].commit_hash_to_checkout # checkouts[k].group[4]
    /\ \E k \in DOMAIN checkouts :
            /\ checkouts[k].group[2] = "No"
            /\ RowsJustAfter(checkouts[k].group[1]) = {}

=============================================================================
